---- MODULE Spec2Model ----
(***************************************************************************)
(* Paper-trading ledger of src/portfolio_service.py (PortfolioService):   *)
(* the cash file, the holdings file and the transactions file, and the    *)
(* buy_stock / sell_stock handlers that rewrite them.                      *)
(*                                                                         *)
(* Money is counted in mills (1/1000 of a currency unit) so that prices    *)
(* with more than two decimals exist and the two-decimal formatting of     *)
(* the cash file (f"{new_balance:.2f}") is a real rounding.  Values the    *)
(* code computes by true division (average_cost, gain_loss, market value)  *)
(* are exact rationals [n, d] in mills; binary floating-point error is     *)
(* not modelled.                                                           *)
(***************************************************************************)
EXTENDS Integers, Sequences, FiniteSets, TLC

VARIABLES
    cash_file,          \* data/cash.csv
    holdings_file,      \* data/holdings.csv
    transactions_file,  \* data/transactions.csv
    result,             \* what the last completed call returned or raised
    pc,                 \* position of each concurrent caller inside its call
    frame,              \* arguments and local variables of each concurrent caller
    start,              \* the ledger the concurrent callers started from
    fit,                \* the running call of _apply_share_reduction_logic
    auto,               \* the running call of run_ai_predictor_with_execution
    quote,              \* the running call of get_stock_quote
    cache_file,         \* data/cached_quotes.csv
    now,                \* the clock, in ticks
    cq,                 \* the last call of get_cached_quote
    stop,               \* the running call of check_stop_losses
    summary,            \* what the last call of get_portfolio_summary returned
    exec,               \* the running call of run_ai_predictor_with_execution
                        \* when the recommendations carry sell decisions
    valuation,          \* what calculate_portfolio_value_on_date returned
    reader,             \* the running call of get_cash_balance
    umv                 \* the running call of update_market_values

\* the variables of the quote cache, the stop-loss check and the summary
more_vars == <<exec, valuation, reader, umv>>

other_vars == <<cache_file, now, cq, stop, summary, more_vars>>

vars == <<cash_file, holdings_file, transactions_file, result, pc, frame, start,
          fit, auto, quote, other_vars>>

(***************************************************************************)
(* Bounds and input sets.                                                  *)
(***************************************************************************)
\* number of records the transactions file may hold in the model
MaxLog == 3

\* tickers a caller may pass; "abc" is the lower-case spelling of "ABC"
Tickers == {"ABC", "abc", "DEF"}

\* quantities a caller may pass (buy_stock / sell_stock do not validate them,
\* so a quantity below 1 is among them)
Quantities == {-1, 1, 2}

\* prices in mills: 5000.00 and 1250.004
Prices == {5000000, 1250004}

\* stop_price argument: None (<<>>)
StopPrices == {<<>>}

\* default balance, in currency units, written when the cash file is missing
DefaultCash == 10000

Mills(units) == units * 1000

(***************************************************************************)
(* Exact rationals.                                                        *)
(***************************************************************************)
Abs(x) == IF x < 0 THEN -x ELSE x

RECURSIVE GCD(_, _)
GCD(a, b) == IF b = 0 THEN a ELSE GCD(b, a % b)

\* the rational n/d (d # 0) in lowest terms with a positive denominator
Rat(n, d) ==
    LET g == GCD(Abs(n), Abs(d))
        s == IF d < 0 THEN -1 ELSE 1
    IN  [n |-> (s * n) \div g, d |-> (s * d) \div g]

RatOfInt(i) == [n |-> i, d |-> 1]

RatAdd(x, y) == Rat(x.n * y.d + y.n * x.d, x.d * y.d)

RatSub(x, y) == Rat(x.n * y.d - y.n * x.d, x.d * y.d)

RatMulInt(x, k) == Rat(x.n * k, x.d)

RatDivInt(x, k) == Rat(x.n, x.d * k)

(***************************************************************************)
(* str.upper() on the tickers of the model.                                *)
(***************************************************************************)
\* variant: the ticker is used as the caller spelled it
Upper_AsGiven(ticker) == ticker

Upper(ticker) == IF ticker = "abc" THEN "ABC" ELSE ticker

(***************************************************************************)
(* Cash file.  <<>> is a missing file, <<m>> a file holding balance m.     *)
(***************************************************************************)
\* f"{new_balance:.2f}": round to a whole number of cents, ties to even
FormatCash(mills) ==
    LET r    == mills % 10
        base == mills - r
    IN  IF r < 5 THEN base
        ELSE IF r > 5 THEN base + 10
        ELSE IF (base \div 10) % 2 = 0 THEN base ELSE base + 10

\* _update_cash_balance: the file is rewritten with the formatted balance
UpdateCashBalance(new_balance) == <<FormatCash(new_balance)>>

\* get_cash_balance: value returned
GetCashBalance(cf) == IF cf = <<>> THEN Mills(DefaultCash) ELSE cf[1]

\* get_cash_balance: the file afterwards (a missing file is initialised)
CashFileAfterGet(cf) ==
    IF cf = <<>> THEN UpdateCashBalance(Mills(DefaultCash)) ELSE cf

(***************************************************************************)
(* Holdings file: a sequence of rows in file order.                        *)
(* A missing file reads as no rows (get_holdings catches FileNotFound).    *)
(***************************************************************************)
\* index of the first row with this ticker, 0 when there is none
FindHolding(holdings, ticker) ==
    IF \E i \in 1..Len(holdings) : holdings[i].ticker = ticker
    THEN CHOOSE i \in 1..Len(holdings) :
            /\ holdings[i].ticker = ticker
            /\ \A j \in 1..(i - 1) : holdings[j].ticker # ticker
    ELSE 0

\* list.pop(i)
Pop(seq, i) == [k \in 1..(Len(seq) - 1) |-> IF k < i THEN seq[k] ELSE seq[k + 1]]

\* variant: the plain mean of the old average cost and the new price
NewAverageCost_PlainMean(old_holding, quantity, price) ==
    RatDivInt(RatAdd(old_holding.average_cost, RatOfInt(price)), 2)

\* weighted average cost of an existing holding after buying quantity at price
NewAverageCost(old_holding, quantity, price) ==
    LET old_total_cost == RatMulInt(old_holding.average_cost, old_holding.quantity)
        new_total_cost == quantity * price
        total_quantity == old_holding.quantity + quantity
    IN  RatDivInt(RatAdd(old_total_cost, RatOfInt(new_total_cost)), total_quantity)

\* _update_holdings_after_buy raises ZeroDivisionError when the new total
\* quantity of an existing holding is 0
BuyDividesByZero(holdings, ticker, quantity) ==
    LET i == FindHolding(holdings, ticker)
    IN  i # 0 /\ holdings[i].quantity + quantity = 0

\* _update_holdings_after_buy: the rows written back
HoldingsAfterBuy(holdings, ticker, quantity, price) ==
    LET i == FindHolding(holdings, ticker)
    IN  IF i # 0
        THEN LET total_quantity == holdings[i].quantity + quantity
             IN  [holdings EXCEPT ![i] =
                    [ticker             |-> ticker,
                     quantity           |-> total_quantity,
                     average_cost       |-> NewAverageCost(holdings[i], quantity, price),
                     total_market_value |-> RatOfInt(total_quantity * price)]]
        ELSE Append(holdings,
                    [ticker             |-> ticker,
                     quantity           |-> quantity,
                     average_cost       |-> RatOfInt(price),
                     total_market_value |-> RatOfInt(quantity * price)])

\* variant: a row whose quantity reached exactly 0 is kept
SellRemoves_BelowZero(new_quantity) == new_quantity < 0

\* the sale removes the row
SellRemoves(new_quantity) == new_quantity <= 0

\* variant: the remaining cost (new_quantity * average_cost) is stored under
\* average_cost instead of total_market_value
HoldingsAfterSell_CostOverwritten(holdings, ticker, quantity) ==
    LET i == FindHolding(holdings, ticker)
    IN  IF i = 0 THEN holdings
        ELSE LET new_quantity == holdings[i].quantity - quantity
             IN  IF SellRemoves(new_quantity)
                 THEN Pop(holdings, i)
                 ELSE [holdings EXCEPT
                         ![i].quantity = new_quantity,
                         ![i].average_cost =
                             RatMulInt(holdings[i].average_cost, new_quantity)]

\* _update_holdings_after_sell: the rows written back
HoldingsAfterSell(holdings, ticker, quantity) ==
    LET i == FindHolding(holdings, ticker)
    IN  IF i = 0 THEN holdings
        ELSE LET new_quantity == holdings[i].quantity - quantity
             IN  IF SellRemoves(new_quantity)
                 THEN Pop(holdings, i)
                 ELSE [holdings EXCEPT
                         ![i].quantity = new_quantity,
                         ![i].total_market_value =
                             RatMulInt(holdings[i].average_cost, new_quantity)]

(***************************************************************************)
(* Transactions file: rows in file order.  An empty CSV field is <<>>, a   *)
(* filled one is <<value>>.                                                *)
(***************************************************************************)
BuyTransaction(ticker, quantity, price, stop_price) ==
    [ticker        |-> Upper(ticker),
     quantity      |-> <<quantity>>,
     buy_price     |-> <<price>>,
     total         |-> <<quantity * price>>,
     stop_price    |-> IF stop_price # <<>> /\ stop_price[1] # 0
                       THEN stop_price ELSE <<>>,
     sell_quantity |-> <<>>,
     sell_price    |-> <<>>,
     gain_loss     |-> <<>>]

\* variant: the cost basis is taken for one share, not for the quantity sold
GainLoss_OneShareBasis(holding, quantity, price) ==
    RatSub(RatOfInt(quantity * price), holding.average_cost)

\* gain_loss = total_proceeds - quantity * holding['average_cost']
GainLoss(holding, quantity, price) ==
    RatSub(RatOfInt(quantity * price), RatMulInt(holding.average_cost, quantity))

SellTransaction(ticker_upper, quantity, price, gain_loss) ==
    [ticker        |-> ticker_upper,
     quantity      |-> <<>>,
     buy_price     |-> <<>>,
     total         |-> <<>>,
     stop_price    |-> <<>>,
     sell_quantity |-> <<quantity>>,
     sell_price    |-> <<price>>,
     gain_loss     |-> <<gain_loss>>]

\* _add_transaction: one row appended at the end of the file
AddTransaction(transactions, transaction) == Append(transactions, transaction)

(***************************************************************************)
(* buy_stock and sell_stock, run from entry to return or raise, as         *)
(* functions of the three files.                                           *)
(***************************************************************************)
Ledger(cf, hf, tf) ==
    [cash_file |-> cf, holdings_file |-> hf, transactions_file |-> tf]

\* variant: a buy costing exactly the balance is rejected as well
InsufficientFunds_AtBalance(total_cost, current_cash) == total_cost >= current_cash

\* the guard of buy_stock that raises "Insufficient funds"
InsufficientFunds(total_cost, current_cash) == total_cost > current_cash

\* variant: a sale of exactly the held quantity is rejected as well
InsufficientShares_AtHeld(quantity, held) == quantity >= held

\* the guard of sell_stock that raises "Cannot sell"
InsufficientShares(quantity, held) == quantity > held

\* buy_stock: the files afterwards and how the call ended
BuyStockRun(L, ticker, quantity, price, stop_price) ==
    LET total_cost   == quantity * price
        current_cash == GetCashBalance(L.cash_file)
        t            == Upper(ticker)
        cf0          == CashFileAfterGet(L.cash_file)
    IN  IF InsufficientFunds(total_cost, current_cash)
        THEN [ledger |-> Ledger(cf0, L.holdings_file, L.transactions_file),
              status |-> "InsufficientFunds"]
        ELSE LET cf == UpdateCashBalance(current_cash - total_cost)
                 tf == AddTransaction(L.transactions_file,
                                      BuyTransaction(ticker, quantity, price, stop_price))
             IN  IF BuyDividesByZero(L.holdings_file, t, quantity)
                 THEN [ledger |-> Ledger(cf, L.holdings_file, tf),
                       status |-> "ZeroDivisionError"]
                 ELSE [ledger |-> Ledger(cf, HoldingsAfterBuy(L.holdings_file, t, quantity, price), tf),
                       status |-> "ok"]

\* sell_stock: the files afterwards and how the call ended
SellStockRun(L, ticker, quantity, price) ==
    LET ticker_upper == Upper(ticker)
        i            == FindHolding(L.holdings_file, ticker_upper)
    IN  IF i = 0
        THEN [ledger |-> L, status |-> "NoHoldings"]
        ELSE IF InsufficientShares(quantity, L.holdings_file[i].quantity)
        THEN [ledger |-> L, status |-> "InsufficientShares"]
        ELSE LET holding        == L.holdings_file[i]
                 total_proceeds == quantity * price
                 gain_loss      == GainLoss(holding, quantity, price)
                 current_cash   == GetCashBalance(L.cash_file)
                 cf == UpdateCashBalance(current_cash + total_proceeds)
                 tf == AddTransaction(L.transactions_file,
                                      SellTransaction(ticker_upper, quantity, price, gain_loss))
                 hf == HoldingsAfterSell(L.holdings_file, ticker_upper, quantity)
             IN  [ledger |-> Ledger(cf, hf, tf), status |-> "ok"]

(***************************************************************************)
(* One caller at a time: each action is one whole call.                    *)
(***************************************************************************)
Current == Ledger(cash_file, holdings_file, transactions_file)

Procs == {"web", "sched"}

\* the recommendations dict, of which only the buy side and the keys the
\* share reduction adds are kept
Recommendations(buy_recommendations) ==
    [buy_recommendations |-> buy_recommendations,
     share_reduction_applied |-> <<>>, original_total_cost |-> <<>>,
     final_total_cost |-> <<>>, total_savings |-> <<>>, reduction_rounds |-> <<>>]

\* run_ai_predictor_with_execution has not been called
NoAuto == [pc |-> "idle", i |-> 0, cash_balance |-> 0]

\* get_stock_quote has not been called
NoQuote == [pc |-> "idle", symbol |-> "", apis_to_try |-> <<>>, tried |-> <<>>,
            result |-> <<>>]

\* get_cached_quote has not been called
NoCachedCall == [symbol |-> "", force_refresh |-> FALSE, at |-> 0,
                 resolved |-> FALSE, fetched |-> <<>>, result |-> <<>>]

\* the tickers of the stop-loss check and of the portfolio summary
StopTickers == {"ABC", "DEF"}

\* an empty stop_loss_map: no ticker is a key
NoStopLossMap == [t \in StopTickers |-> <<>>]

\* check_stop_losses has not been called
NoStop == [pc |-> "idle", holdings |-> <<>>, stop_loss_map |-> NoStopLossMap,
           i |-> 0, seen |-> <<>>]

\* get_portfolio_summary has not been called
NoSummary == [pc |-> "idle", quotes |-> <<>>, result |-> <<>>]

\* run_ai_predictor_with_execution (with its sell decisions) has not been
\* called
NoRun == [pc |-> "idle", sell_decisions |-> <<>>, i |-> 0, cash_balance |-> 0,
          seen |-> <<>>]

\* calculate_portfolio_value_on_date has not been called
NoValuation == [pc |-> "idle", target_date |-> 0, holdings |-> <<>>, result |-> <<>>]

\* no get_cash_balance call is under way
NoReader == [pc |-> "idle", result |-> <<>>]

\* no update_market_values call is under way
NoUpdate == [pc |-> "idle", holdings |-> <<>>, quotes |-> <<>>, updated_holdings |-> <<>>]

\* the cache file does not exist, the clock is at 0 and nothing runs
InitOther ==
    /\ cache_file = [exists |-> FALSE, rows |-> <<>>]
    /\ now = 0
    /\ cq = NoCachedCall
    /\ stop = NoStop
    /\ summary = NoSummary
    /\ exec = NoRun
    /\ valuation = NoValuation
    /\ reader = NoReader
    /\ umv = NoUpdate

\* no call of _apply_share_reduction_logic has been made
NoFit == [pc |-> "idle", available_cash |-> 0, orders |-> <<>>,
          recommendations |-> Recommendations(<<>>), total_original_cost |-> 0,
          reduction_rounds |-> 0, exit |-> "none"]

NoFrame == [op |-> "none", ticker |-> "", quantity |-> 0, price |-> 0,
            stop_price |-> <<>>, current_cash |-> 0, holdings |-> <<>>, gain_loss |-> RatOfInt(0),
            status |-> "none"]

Commit(run, op) ==
    /\ Len(run.ledger.transactions_file) <= MaxLog
    /\ cash_file' = run.ledger.cash_file
    /\ holdings_file' = run.ledger.holdings_file
    /\ transactions_file' = run.ledger.transactions_file
    /\ result' = [op |-> op, status |-> run.status]
    /\ UNCHANGED <<pc, frame, start, fit, auto, quote, other_vars>>

BuyStock(ticker, quantity, price, stop_price) ==
    \E run \in {BuyStockRun(Current, ticker, quantity, price, stop_price)} :
        Commit(run, "buy")

SellStock(ticker, quantity, price) ==
    \E run \in {SellStockRun(Current, ticker, quantity, price)} :
        Commit(run, "sell")

Buy == \E ticker \in Tickers, quantity \in Quantities, price \in Prices,
          stop_price \in StopPrices :
            BuyStock(ticker, quantity, price, stop_price)

Sell == \E ticker \in Tickers, quantity \in Quantities, price \in Prices :
            SellStock(ticker, quantity, price)

Fresh == Ledger(<<>>, <<>>, <<>>)

Init ==
    /\ cash_file = <<>>
    /\ holdings_file = <<>>
    /\ transactions_file = <<>>
    /\ result = [op |-> "none", status |-> "none"]
    /\ pc = [p \in Procs |-> "idle"]
    /\ frame = [p \in Procs |-> NoFrame]
    /\ start = Fresh
    /\ fit = NoFit
    /\ auto = NoAuto
    /\ quote = NoQuote
    /\ InitOther

Next == Buy \/ Sell

Spec == Init /\ [][Next]_vars

(***************************************************************************)
(* Two callers at once (a web request and a scheduler tick work on the     *)
(* same data directory; nothing in the code locks the files).  Each step   *)
(* is one file access of buy_stock / sell_stock together with the          *)
(* computation that leads to it; the callers' steps interleave freely.     *)
(* Each caller makes one call.                                             *)
(***************************************************************************)
ConcTickers == {"ABC", "DEF"}

ConcQuantities == {1, 2}

\* ledgers the two callers may start from: the fresh one and the one after
\* buy_stock("ABC", 2, 1250.004)
ConcStarts == {Fresh, BuyStockRun(Fresh, "ABC", 2, 1250004, <<>>).ledger}

Goto(p, label, f) ==
    /\ pc' = [pc EXCEPT ![p] = label]
    /\ frame' = [frame EXCEPT ![p] = f]
    /\ UNCHANGED <<result, start, fit, auto, quote, other_vars>>

\* buy_stock up to the funds check: get_cash_balance, compare
CallBuy(p, ticker, quantity, price, stop_price) ==
    /\ pc[p] = "idle"
    /\ cash_file' = CashFileAfterGet(cash_file)
    /\ UNCHANGED <<holdings_file, transactions_file>>
    /\ LET f == [NoFrame EXCEPT !.op = "buy", !.ticker = Upper(ticker),
                                !.quantity = quantity, !.price = price,
                                !.stop_price = stop_price,
                                !.current_cash = GetCashBalance(cash_file)]
       IN  IF InsufficientFunds(quantity * price, f.current_cash)
           THEN Goto(p, "done", [f EXCEPT !.status = "InsufficientFunds"])
           ELSE Goto(p, "buy_update_cash", f)

\* buy_stock: self._update_cash_balance(new_cash_balance)
BuyUpdateCash(p) ==
    /\ pc[p] = "buy_update_cash"
    /\ cash_file' = UpdateCashBalance(frame[p].current_cash
                                        - frame[p].quantity * frame[p].price)
    /\ UNCHANGED <<holdings_file, transactions_file>>
    /\ Goto(p, "buy_add_transaction", frame[p])

\* buy_stock: self._add_transaction(transaction)
BuyAddTransaction(p) ==
    /\ pc[p] = "buy_add_transaction"
    /\ transactions_file' =
          AddTransaction(transactions_file,
                         BuyTransaction(frame[p].ticker, frame[p].quantity,
                                        frame[p].price, frame[p].stop_price))
    /\ UNCHANGED <<cash_file, holdings_file>>
    /\ Goto(p, "buy_get_holdings", frame[p])

\* _update_holdings_after_buy: holdings = self.get_holdings()
BuyGetHoldings(p) ==
    /\ pc[p] = "buy_get_holdings"
    /\ UNCHANGED <<cash_file, holdings_file, transactions_file>>
    /\ Goto(p, "buy_update_holdings", [frame[p] EXCEPT !.holdings = holdings_file])

\* _update_holdings_after_buy: compute the rows, self._update_holdings(holdings)
BuyUpdateHoldings(p) ==
    /\ pc[p] = "buy_update_holdings"
    /\ UNCHANGED <<cash_file, transactions_file>>
    /\ IF BuyDividesByZero(frame[p].holdings, frame[p].ticker, frame[p].quantity)
       THEN /\ UNCHANGED holdings_file
            /\ Goto(p, "done", [frame[p] EXCEPT !.status = "ZeroDivisionError"])
       ELSE /\ holdings_file' = HoldingsAfterBuy(frame[p].holdings, frame[p].ticker,
                                                 frame[p].quantity, frame[p].price)
            /\ Goto(p, "done", [frame[p] EXCEPT !.status = "ok"])

\* sell_stock up to the gain/loss computation: get_holdings, find, compare
CallSell(p, ticker, quantity, price) ==
    /\ pc[p] = "idle"
    /\ UNCHANGED <<cash_file, holdings_file, transactions_file>>
    /\ LET f == [NoFrame EXCEPT !.op = "sell", !.ticker = Upper(ticker),
                                !.quantity = quantity, !.price = price]
           i == FindHolding(holdings_file, f.ticker)
       IN  IF i = 0
           THEN Goto(p, "done", [f EXCEPT !.status = "NoHoldings"])
           ELSE IF InsufficientShares(quantity, holdings_file[i].quantity)
           THEN Goto(p, "done", [f EXCEPT !.status = "InsufficientShares"])
           ELSE Goto(p, "sell_get_cash",
                     [f EXCEPT !.gain_loss = GainLoss(holdings_file[i], quantity, price)])

\* sell_stock: current_cash = self.get_cash_balance()
SellGetCash(p) ==
    /\ pc[p] = "sell_get_cash"
    /\ cash_file' = CashFileAfterGet(cash_file)
    /\ UNCHANGED <<holdings_file, transactions_file>>
    /\ Goto(p, "sell_update_cash",
            [frame[p] EXCEPT !.current_cash = GetCashBalance(cash_file)])

\* sell_stock: self._update_cash_balance(new_cash_balance)
SellUpdateCash(p) ==
    /\ pc[p] = "sell_update_cash"
    /\ cash_file' = UpdateCashBalance(frame[p].current_cash
                                        + frame[p].quantity * frame[p].price)
    /\ UNCHANGED <<holdings_file, transactions_file>>
    /\ Goto(p, "sell_add_transaction", frame[p])

\* sell_stock: self._add_transaction(transaction)
SellAddTransaction(p) ==
    /\ pc[p] = "sell_add_transaction"
    /\ transactions_file' =
          AddTransaction(transactions_file,
                         SellTransaction(frame[p].ticker, frame[p].quantity,
                                         frame[p].price, frame[p].gain_loss))
    /\ UNCHANGED <<cash_file, holdings_file>>
    /\ Goto(p, "sell_get_holdings", frame[p])

\* _update_holdings_after_sell: holdings = self.get_holdings()
SellGetHoldings(p) ==
    /\ pc[p] = "sell_get_holdings"
    /\ UNCHANGED <<cash_file, holdings_file, transactions_file>>
    /\ Goto(p, "sell_update_holdings", [frame[p] EXCEPT !.holdings = holdings_file])

\* _update_holdings_after_sell: change the rows, self._update_holdings(holdings)
SellUpdateHoldings(p) ==
    /\ pc[p] = "sell_update_holdings"
    /\ holdings_file' = HoldingsAfterSell(frame[p].holdings, frame[p].ticker,
                                          frame[p].quantity)
    /\ UNCHANGED <<cash_file, transactions_file>>
    /\ Goto(p, "done", [frame[p] EXCEPT !.status = "ok"])

InitConc ==
    /\ start \in ConcStarts
    /\ cash_file = start.cash_file
    /\ holdings_file = start.holdings_file
    /\ transactions_file = start.transactions_file
    /\ result = [op |-> "none", status |-> "none"]
    /\ pc = [p \in Procs |-> "idle"]
    /\ frame = [p \in Procs |-> NoFrame]
    /\ fit = NoFit
    /\ auto = NoAuto
    /\ quote = NoQuote
    /\ InitOther

NextConc ==
    \E p \in Procs :
        \/ \E ticker \in ConcTickers, quantity \in ConcQuantities, price \in Prices,
              stop_price \in StopPrices :
                CallBuy(p, ticker, quantity, price, stop_price)
        \/ BuyUpdateCash(p)
        \/ BuyAddTransaction(p)
        \/ BuyGetHoldings(p)
        \/ BuyUpdateHoldings(p)
        \/ \E ticker \in ConcTickers, quantity \in ConcQuantities, price \in Prices :
                CallSell(p, ticker, quantity, price)
        \/ SellGetCash(p)
        \/ SellUpdateCash(p)
        \/ SellAddTransaction(p)
        \/ SellGetHoldings(p)
        \/ SellUpdateHoldings(p)

SpecConc == InitConc /\ [][NextConc]_vars

(***************************************************************************)
(* Share reduction of src/ai_predictor_service.py                          *)
(* (_apply_share_reduction_logic): one step per pass of its while loop.    *)
(* Prices and costs are in mills; an absent dict key is <<>>.              *)
(***************************************************************************)
\* cash, in currency units, the buy recommendations must leave untouched
CASH_BUFFER == 500

\* number of rounds after which the safety check leaves the loop
MaxReductionRounds == 1000

\* longest list of buy recommendations in the model
MaxOrders == 2

\* available_cash: 400.00, 540.00 and 10000.00
FitCash == {400000, 540000, 10000000}

\* quantities of the proposed buys
FitQuantities == {1, 3, 1500}

\* current_price of the proposed buys: 20.00 and 19.02
FitPrices == {20000, 19020}

\* ticker of the i-th proposed buy
FitTicker(i) == <<"ABC", "DEF", "GHI">>[i]

\* a validated buy recommendation, before the share reduction has seen it
BuyRec(ticker, quantity, current_price) ==
    [ticker |-> ticker, quantity |-> quantity, current_price |-> current_price,
     original_quantity |-> <<>>, original_cost |-> <<>>, shares_reduced |-> <<>>,
     shares_reduced_count |-> <<>>, final_cost |-> <<>>]

\* the lists of buy recommendations handed to the share reduction
FitOrders ==
    UNION {{[i \in 1..n |-> BuyRec(FitTicker(i), qp[i][1], qp[i][2])] :
              qp \in [1..n -> FitQuantities \X FitPrices]} : n \in 0..MaxOrders}

MaxInvestment_NoBuffer(available_cash) == available_cash

MaxInvestment(available_cash) == available_cash - Mills(CASH_BUFFER)

\* sum of price * quantity over a list of recommendations
RECURSIVE TotalCost(_)
TotalCost(recs) ==
    IF recs = <<>> THEN 0
    ELSE Head(recs).current_price * Head(recs).quantity + TotalCost(Tail(recs))

MarkOriginal(recs) ==
    [i \in 1..Len(recs) |->
        [recs[i] EXCEPT !.original_quantity = <<recs[i].quantity>>,
                        !.original_cost = <<recs[i].current_price * recs[i].quantity>>]]

MarkNotReduced_AsReduced(recs) ==
    [i \in 1..Len(recs) |-> [recs[i] EXCEPT !.shares_reduced = <<TRUE>>]]

MarkNotReduced(recs) ==
    [i \in 1..Len(recs) |-> [recs[i] EXCEPT !.shares_reduced = <<FALSE>>]]

ReduceEach_Unguarded(recs) ==
    [i \in 1..Len(recs) |-> [recs[i] EXCEPT !.quantity = @ - 1]]

\* one round: every recommendation that has shares left loses one
ReduceEach(recs) ==
    [i \in 1..Len(recs) |->
        IF recs[i].quantity > 0 THEN [recs[i] EXCEPT !.quantity = @ - 1]
        ELSE recs[i]]

ReductionsMade(recs) == \E i \in 1..Len(recs) : recs[i].quantity > 0

TooManyRounds(reduction_rounds) == reduction_rounds > MaxReductionRounds

FinalCost_OfOriginal(rec) == rec.current_price * rec.original_quantity[1]

FinalCost(rec) == rec.current_price * rec.quantity

\* sum of the final_cost the recommendations were marked with
RECURSIVE SumFinalCost(_)
SumFinalCost(recs) ==
    IF recs = <<>> THEN 0 ELSE Head(recs).final_cost[1] + SumFinalCost(Tail(recs))

MarkFinal(recs) ==
    [i \in 1..Len(recs) |->
        LET shares_reduced == recs[i].original_quantity[1] - recs[i].quantity
        IN  [recs[i] EXCEPT
               !.shares_reduced = <<shares_reduced > 0>>,
               !.shares_reduced_count = <<shares_reduced>>,
               !.final_cost = <<FinalCost(recs[i])>>]]

HasShares(rec) == rec.quantity > 0

\* lines 419-460: the call up to the while loop, or up to an early return
FitCall(available_cash, recs) ==
    /\ fit.pc = "idle"
    /\ LET marked == MarkOriginal(recs)
           total_original_cost == TotalCost(marked)
           called == [NoFit EXCEPT !.available_cash = available_cash,
                                   !.orders = recs]
       IN  IF recs = <<>>
           THEN fit' = [called EXCEPT !.pc = "returned", !.exit = "empty",
                           !.recommendations = Recommendations(recs)]
           ELSE IF total_original_cost <= MaxInvestment(available_cash)
           THEN fit' = [called EXCEPT !.pc = "returned", !.exit = "within",
                           !.total_original_cost = total_original_cost,
                           !.recommendations =
                                Recommendations(MarkNotReduced(marked))]
           ELSE fit' = [called EXCEPT !.pc = "loop",
                           !.total_original_cost = total_original_cost,
                           !.recommendations = Recommendations(marked)]

\* lines 463-497: one pass of the while loop
FitRound ==
    /\ fit.pc = "loop"
    /\ LET recs == fit.recommendations.buy_recommendations
           current_total_cost == TotalCost(recs)
           reduction_rounds == fit.reduction_rounds + 1
       IN  IF current_total_cost <= MaxInvestment(fit.available_cash)
           THEN fit' = [fit EXCEPT !.pc = "final", !.exit = "budget"]
           ELSE IF ~ReductionsMade(recs)
           THEN fit' = [fit EXCEPT !.pc = "final", !.exit = "exhausted"]
           ELSE fit' = [fit EXCEPT
                          !.recommendations.buy_recommendations = ReduceEach(recs),
                          !.reduction_rounds = reduction_rounds,
                          !.pc = IF TooManyRounds(reduction_rounds)
                                 THEN "final" ELSE "loop",
                          !.exit = IF TooManyRounds(reduction_rounds)
                                   THEN "cap" ELSE @]
    /\ UNCHANGED <<cash_file, holdings_file, transactions_file, result, pc,
                   frame, start, auto, quote, other_vars>>

\* lines 499-538: final costs, removal of the emptied recommendations, totals
FitFinish ==
    /\ fit.pc = "final"
    /\ LET recs == MarkFinal(fit.recommendations.buy_recommendations)
           final_total_cost == SumFinalCost(recs)
       IN  fit' = [fit EXCEPT
                     !.pc = "returned",
                     !.recommendations =
                        [buy_recommendations |-> SelectSeq(recs, HasShares),
                         share_reduction_applied |-> <<TRUE>>,
                         original_total_cost |-> <<fit.total_original_cost>>,
                         final_total_cost |-> <<final_total_cost>>,
                         total_savings |->
                            <<fit.total_original_cost - final_total_cost>>,
                         reduction_rounds |-> <<fit.reduction_rounds>>]]
    /\ UNCHANGED <<cash_file, holdings_file, transactions_file, result, pc,
                   frame, start, auto, quote, other_vars>>

ApplyShareReductionLogic ==
    /\ \E available_cash \in FitCash, recs \in FitOrders :
          FitCall(available_cash, recs)
    /\ UNCHANGED <<cash_file, holdings_file, transactions_file, result, pc,
                   frame, start, auto, quote, other_vars>>

NextFit == ApplyShareReductionLogic \/ FitRound \/ FitFinish

SpecFit == Init /\ [][NextFit]_vars

\* the call runs to its end: the loop and the final pass are straight-line
\* code that nothing suspends
SpecFitFair == SpecFit /\ WF_vars(FitRound) /\ WF_vars(FitFinish)

(***************************************************************************)
(* Scheduled run of src/scheduler.py (run_ai_predictor_with_execution):    *)
(* the recommendations are fitted against the cash balance and the buys    *)
(* of the result are executed one after the other.  The recommendations    *)
(* carry no sell decisions, so the sell loop has nothing to do.            *)
(***************************************************************************)
\* ledgers the run may start from: the fresh one (10000.00) and the ones
\* one buy of 9460.00 or of 9600.00 leaves (540.00 and 400.00)
AutoStarts ==
    {Fresh, BuyStockRun(Fresh, "JKL", 1, 9460000, <<>>).ledger,
            BuyStockRun(Fresh, "JKL", 1, 9600000, <<>>).ledger}

\* lines 299-321: get_stock_recommendations reads the cash balance from
\* get_portfolio_summary and hands it to the share reduction
GetStockRecommendations ==
    /\ auto.pc = "idle"
    /\ \E recs \in FitOrders : FitCall(GetCashBalance(cash_file), recs)
    /\ cash_file' = CashFileAfterGet(cash_file)
    /\ auto' = [auto EXCEPT !.pc = "recommending"]
    /\ UNCHANGED <<holdings_file, transactions_file, result, pc, frame, start,
                   quote, other_vars>>

\* lines 399-405: the cash balance is read again before the buys
BeginBuys ==
    /\ auto.pc = "recommending"
    /\ fit.pc = "returned"
    /\ auto' = [pc |-> IF fit.recommendations.buy_recommendations = <<>>
                       THEN "done" ELSE "buying",
                i |-> 1,
                cash_balance |-> GetCashBalance(cash_file)]
    /\ UNCHANGED <<cash_file, holdings_file, transactions_file, result, pc,
                   frame, start, fit, quote, other_vars>>

\* lines 407-460: one pass of the buy loop
ExecuteBuy ==
    /\ auto.pc = "buying"
    /\ LET buy_rec == fit.recommendations.buy_recommendations[auto.i]
           total_cost == buy_rec.quantity * buy_rec.current_price
           current_cash == GetCashBalance(cash_file)
           run == BuyStockRun(Current, buy_rec.ticker, buy_rec.quantity,
                              buy_rec.current_price, <<>>)
       IN  IF total_cost > current_cash
           THEN UNCHANGED <<cash_file, holdings_file, transactions_file, result>>
           ELSE /\ cash_file' = run.ledger.cash_file
                /\ holdings_file' = run.ledger.holdings_file
                /\ transactions_file' = run.ledger.transactions_file
                /\ result' = [op |-> "buy", status |-> run.status]
    /\ auto' = [auto EXCEPT
                  !.i = @ + 1,
                  !.pc = IF auto.i = Len(fit.recommendations.buy_recommendations)
                         THEN "done" ELSE "buying"]
    /\ UNCHANGED <<pc, frame, start, fit, quote, other_vars>>

InitAuto ==
    /\ start \in AutoStarts
    /\ cash_file = start.cash_file
    /\ holdings_file = start.holdings_file
    /\ transactions_file = start.transactions_file
    /\ result = [op |-> "none", status |-> "none"]
    /\ pc = [p \in Procs |-> "idle"]
    /\ frame = [p \in Procs |-> NoFrame]
    /\ fit = NoFit
    /\ auto = NoAuto
    /\ quote = NoQuote
    /\ InitOther

NextAuto ==
    GetStockRecommendations \/ FitRound \/ FitFinish \/ BeginBuys \/ ExecuteBuy

SpecAuto == InitAuto /\ [][NextAuto]_vars

(***************************************************************************)
(* Quote lookup of src/app.py (MultiAPIStockService.get_stock_quote):      *)
(* one step per adapter call.  quote.tried is the record of the adapter    *)
(* calls made, with what each ended in.                                    *)
(***************************************************************************)
\* self.apis: the names of the adapters, in the order of the list
Apis == <<"yfinance", "pyfinviz", "alpha_vantage", "finnhub", "free_api">>

ApiNames == {Apis[i] : i \in 1..Len(Apis)}

\* random.shuffle(apis_to_try): every order of the adapters
Shuffles ==
    {order \in [1..Len(Apis) -> ApiNames] :
        \A i, j \in 1..Len(Apis) : i # j => order[i] # order[j]}

\* symbols a caller may ask for
QuoteSymbols == {"ABC", "abc"}

\* prices, in mills, a provider may report: 123.45, 99.00 and 0
QuotePrices == {123450, 99000, 0}

Raised == [kind |-> "raise", current_price |-> 0]

ReturnedNone == [kind |-> "none", current_price |-> 0]

ReturnedQuote(current_price) == [kind |-> "quote", current_price |-> current_price]

\* what a call of an adapter can end in: an exception, None (yfinance with
\* an empty history) or a quote dict; finnhub raises on a price of 0
Outcomes(api) ==
    {Raised}
    \cup (IF api = "yfinance" THEN {ReturnedNone} ELSE {})
    \cup {ReturnedQuote(p) : p \in (IF api = "finnhub" THEN QuotePrices \ {0}
                                    ELSE QuotePrices)}

Truthy_NoneToo(outcome) == outcome.kind # "raise"

\* "if result:", reached only when the adapter returned
Truthy(outcome) == outcome.kind = "quote"

\* the dict an adapter returned, with api_source set (line 50); timestamp
\* is the key a cache entry has in its place
StampedQuote(symbol, outcome, api) ==
    [symbol |-> <<Upper(symbol)>>, current_price |-> outcome.current_price,
     timestamp |-> <<>>, api_source |-> api]

ListExhausted_AfterTwo(tried, apis_to_try) == Len(tried) >= 2

\* the for loop has gone through the whole of apis_to_try
ListExhausted(tried, apis_to_try) == Len(tried) = Len(apis_to_try)

\* lines 38-40: the call and the shuffle
CallGetStockQuote(symbol) ==
    /\ quote.pc = "idle"
    /\ \E order \in Shuffles :
          quote' = [pc |-> "trying", symbol |-> symbol, apis_to_try |-> order,
                    tried |-> <<>>, result |-> <<>>]
    /\ UNCHANGED <<cash_file, holdings_file, transactions_file, result, pc,
                   frame, start, fit, auto, other_vars>>

\* lines 42-61: one pass of the loop over apis_to_try, with the return
\* that follows a quote or the end of the list
TryApi ==
    /\ quote.pc = "trying"
    /\ LET api == quote.apis_to_try[Len(quote.tried) + 1]
       IN  \E outcome \in Outcomes(api) :
             LET tried == Append(quote.tried, [api |-> api, outcome |-> outcome])
             IN  IF Truthy(outcome)
                 THEN quote' = [quote EXCEPT
                                  !.pc = "returned", !.tried = tried,
                                  !.result =
                                     <<StampedQuote(quote.symbol, outcome, api)>>]
                 ELSE quote' = [quote EXCEPT
                                  !.pc = IF ListExhausted(tried, quote.apis_to_try)
                                         THEN "returned" ELSE "trying",
                                  !.tried = tried]
    /\ UNCHANGED <<cash_file, holdings_file, transactions_file, result, pc,
                   frame, start, fit, auto, other_vars>>

GetStockQuote == \E symbol \in QuoteSymbols : CallGetStockQuote(symbol)

NextQuote == GetStockQuote \/ TryApi

SpecQuote == Init /\ [][NextQuote]_vars

(***************************************************************************)
(* Quote cache of src/app.py (MultiAPIStockService.get_cached_quote): one  *)
(* step per call.  The clock counts ticks of 30 minutes; a timestamp is    *)
(* the tick at which it was taken.  What get_stock_quote returns to the    *)
(* call is drawn from CacheQuotes.                                         *)
(***************************************************************************)
\* timedelta(hours=1): hours a cache entry stays valid
CacheHours == 1

\* last tick of the clock in the model
MaxTicks == 3

Minutes(ticks) == ticks * 30

\* what get_stock_quote may return to get_cached_quote: None, 123.45 from
\* yfinance or 99.00 from finnhub
CacheQuotes(symbol) ==
    {<<>>,
     <<StampedQuote(symbol, ReturnedQuote(123450), "yfinance")>>,
     <<StampedQuote(symbol, ReturnedQuote(99000), "finnhub")>>}

\* lines 80-83: the file with its header row exists from the first call on
CacheFileCreated(file) == [file EXCEPT !.exists = TRUE]

\* position of the symbol's row in the cache, 0 when it has none
FindCached(rows, symbol) ==
    IF \E i \in 1..Len(rows) : rows[i].ticker = symbol
    THEN CHOOSE i \in 1..Len(rows) : rows[i].ticker = symbol
    ELSE 0

IsFresh_Inclusive(timestamp, t) == Minutes(t - timestamp) <= 60 * CacheHours

IsFresh_HalfHour(timestamp, t) == Minutes(t - timestamp) < 30 * CacheHours

\* datetime.now() - cached_time < timedelta(hours=1)
IsFresh(timestamp, t) == Minutes(t - timestamp) < 60 * CacheHours

\* cached_quotes[symbol], as returned on a hit
CachedEntry(row) ==
    [symbol |-> <<>>, current_price |-> row.current_price,
     timestamp |-> <<row.timestamp>>, api_source |-> row.api_source]

CacheRow(symbol, fetched, t) ==
    [ticker |-> symbol, current_price |-> fetched.current_price,
     timestamp |-> t, api_source |-> fetched.api_source]

Upsert_Appended(rows, symbol, row) == Append(rows, row)

\* cached_quotes[symbol] = {...}: an existing key keeps its place
Upsert(rows, symbol, row) ==
    LET i == FindCached(rows, symbol)
    IN  IF i = 0 THEN Append(rows, row) ELSE [rows EXCEPT ![i] = row]

RowsAfterFailure_Purged(rows, symbol) ==
    SelectSeq(rows, LAMBDA row : row.ticker # symbol)

\* the resolver returned None: the file is not written
RowsAfterFailure(rows, symbol) == rows

\* get_cached_quote: the file afterwards, whether get_stock_quote was
\* called, and what is returned
GetCachedQuoteRun(file, t, symbol, force_refresh, fetched) ==
    LET i == FindCached(file.rows, symbol)
    IN  IF ~force_refresh /\ i # 0 /\ IsFresh(file.rows[i].timestamp, t)
        THEN [cache_file |-> CacheFileCreated(file), resolved |-> FALSE,
              result |-> <<CachedEntry(file.rows[i])>>]
        ELSE IF fetched # <<>>
        THEN [cache_file |->
                 [exists |-> TRUE,
                  rows |-> Upsert(file.rows, symbol, CacheRow(symbol, fetched[1], t))],
              resolved |-> TRUE, result |-> fetched]
        ELSE [cache_file |->
                 [exists |-> TRUE, rows |-> RowsAfterFailure(file.rows, symbol)],
              resolved |-> TRUE, result |-> <<>>]

GetCachedQuote(symbol, force_refresh) ==
    /\ \E fetched \in CacheQuotes(symbol) :
         \E run \in {GetCachedQuoteRun(cache_file, now, symbol, force_refresh, fetched)} :
            /\ cache_file' = run.cache_file
            /\ cq' = [symbol |-> symbol, force_refresh |-> force_refresh,
                      at |-> now, resolved |-> run.resolved,
                      fetched |-> IF run.resolved THEN fetched ELSE <<>>,
                      result |-> run.result]
    /\ UNCHANGED <<cash_file, holdings_file, transactions_file, result, pc,
                   frame, start, fit, auto, quote, now, stop, summary, more_vars>>

CachedQuoteCall ==
    \E symbol \in QuoteSymbols, force_refresh \in BOOLEAN :
        GetCachedQuote(symbol, force_refresh)

\* half an hour passes
Tick ==
    /\ now < MaxTicks
    /\ now' = now + 1
    /\ UNCHANGED <<cash_file, holdings_file, transactions_file, result, pc,
                   frame, start, fit, auto, quote, cache_file, cq, stop, summary,
                   more_vars>>

NextCache == CachedQuoteCall \/ Tick

SpecCache == Init /\ [][NextCache]_vars

(***************************************************************************)
(* Portfolio summary of src/portfolio_service.py (get_portfolio_summary,   *)
(* update_market_values, _add_stop_loss_to_holdings) and the stop-loss     *)
(* check of src/scheduler.py (check_stop_losses).  The ledger is built by  *)
(* buys that carry stop prices and by sells; then either one summary is    *)
(* taken or one stop-loss check runs, one holding per step, ending with    *)
(* the summary of its e-mail.  A quote is <<>> (get_stock_quote returned   *)
(* None) or <<current_price>>; stop.seen lists, for the holdings looked at *)
(* so far, the stop price, the quote and what was done.                    *)
(***************************************************************************)
\* shares bought per buy_stock call
StopBuyQuantities == {2}

\* price of the buys: 50.00
StopBuyPrices == {50000}

\* stop_price of a buy: none, 42.50, 42.504 and -1.00
StopLossPrices == {<<>>, <<42500>>, <<42504>>, <<-1000>>}

\* shares sold per sell_stock call, and the price of the sale: 45.00
StopSellQuantities == {1}

StopSellPrices == {45000}

\* what get_stock_quote returns for a holding in the stop-loss loop:
\* None, 42.50 or 43.00
StopQuotes == {<<>>, <<42500>>, <<43000>>}

\* what get_stock_quote returns for a holding in update_market_values:
\* None or 43.00
SummaryQuotes == {<<>>, <<43000>>}

\* scheduler.py lines 489-498: the dict after the first n records
RECURSIVE StopLossMapUpTo(_, _)
StopLossMapUpTo(transactions, n) ==
    IF n = 0 THEN NoStopLossMap
    ELSE LET stop_loss_map == StopLossMapUpTo(transactions, n - 1)
             transaction   == transactions[n]
         IN  IF transaction.stop_price # <<>>
             THEN [stop_loss_map EXCEPT ![transaction.ticker] = transaction.stop_price]
             ELSE stop_loss_map

StopLossMap(transactions) == StopLossMapUpTo(transactions, Len(transactions))

\* portfolio_service.py line 270: a Buy record that carries a stop price
\* (the three CSV fields are non-empty strings)
CarriesStop(tx) ==
    tx.quantity # <<>> /\ tx.buy_price # <<>> /\ tx.stop_price # <<>>

\* portfolio_service.py lines 264-279: the dict after the first n records
RECURSIVE SummaryStopLossMapUpTo(_, _)
SummaryStopLossMapUpTo(transactions, n) ==
    IF n = 0 THEN NoStopLossMap
    ELSE LET stop_loss_map == SummaryStopLossMapUpTo(transactions, n - 1)
             tx            == transactions[n]
         IN  IF CarriesStop(tx) /\ tx.stop_price[1] > 0
             THEN [stop_loss_map EXCEPT ![Upper(tx.ticker)] = tx.stop_price]
             ELSE stop_loss_map

SummaryStopLossMap(transactions) ==
    SummaryStopLossMapUpTo(transactions, Len(transactions))

\* update_market_values lines 232-236: the value of one holding
MarketValue(holding, got) ==
    IF got # <<>>
    THEN RatOfInt(holding.quantity * got[1])
    ELSE holding.total_market_value

\* update_market_values: the rows written back and returned
UpdateMarketValues(holdings, quotes) ==
    [i \in 1..Len(holdings) |->
        [holdings[i] EXCEPT !.total_market_value = MarketValue(holdings[i], quotes[i])]]

\* portfolio_service.py lines 289-298: the risk percentage of a holding with
\* a stop price, max(0, (current_price - stop)/current_price * 100)
StopLossRiskPct(holding, stop_loss_price) ==
    LET current_price ==
            IF holding.quantity > 0
            THEN RatDivInt(holding.total_market_value, holding.quantity)
            ELSE RatOfInt(0)
    IN  IF current_price.n > 0
        THEN LET risk_percentage ==
                     Rat(100 * (current_price.n - stop_loss_price * current_price.d),
                         current_price.n)
             IN  IF risk_percentage.n < 0 THEN RatOfInt(0) ELSE risk_percentage
        ELSE RatOfInt(0)

\* portfolio_service.py lines 283-304: one holding of the summary
EnrichedHolding(holding, stop_loss_map) ==
    IF stop_loss_map[holding.ticker] # <<>>
    THEN [ticker             |-> holding.ticker,
          quantity           |-> holding.quantity,
          average_cost       |-> holding.average_cost,
          total_market_value |-> holding.total_market_value,
          stop_loss_price    |-> stop_loss_map[holding.ticker],
          has_stop_loss      |-> TRUE,
          stop_loss_risk_pct |-> StopLossRiskPct(holding, stop_loss_map[holding.ticker][1])]
    ELSE [ticker             |-> holding.ticker,
          quantity           |-> holding.quantity,
          average_cost       |-> holding.average_cost,
          total_market_value |-> holding.total_market_value,
          stop_loss_price    |-> <<>>,
          has_stop_loss      |-> FALSE,
          stop_loss_risk_pct |-> RatOfInt(0)]

\* _add_stop_loss_to_holdings
AddStopLossToHoldings(holdings, transactions) ==
    [i \in 1..Len(holdings) |->
        EnrichedHolding(holdings[i], SummaryStopLossMap(transactions))]

\* sum(h['total_market_value'] for h in holdings) from the i-th holding on
RECURSIVE SumMarketValue(_, _)
SumMarketValue(holdings, i) ==
    IF i > Len(holdings) THEN RatOfInt(0)
    ELSE RatAdd(holdings[i].total_market_value, SumMarketValue(holdings, i + 1))

\* get_portfolio_summary: the files afterwards and the dict returned
GetPortfolioSummaryRun(L, quotes) ==
    LET cash_balance == GetCashBalance(L.cash_file)
        holdings == UpdateMarketValues(L.holdings_file, quotes)
        holdings_with_stop_loss == AddStopLossToHoldings(holdings, L.transactions_file)
        total_market_value == SumMarketValue(holdings_with_stop_loss, 1)
    IN  [ledger |-> Ledger(CashFileAfterGet(L.cash_file), holdings, L.transactions_file),
         result |->
            [cash_balance          |-> cash_balance,
             holdings              |-> holdings_with_stop_loss,
             total_market_value    |-> total_market_value,
             total_portfolio_value |-> RatAdd(RatOfInt(cash_balance), total_market_value),
             holdings_count        |-> Len(holdings_with_stop_loss)]]

\* the quotes update_market_values may get, one per holding
QuotesFor(holdings) == [1..Len(holdings) -> SummaryQuotes]

\* the files and the summary variable after a summary
SummaryTaken(run, quotes) ==
    /\ cash_file' = run.ledger.cash_file
    /\ holdings_file' = run.ledger.holdings_file
    /\ summary' = [pc |-> "returned", quotes |-> quotes, result |-> <<run.result>>]

\* nothing runs: the ledger may be changed and calls may start
Quiet == stop.pc = "idle" /\ summary.pc = "idle" /\ valuation.pc = "idle"

StopBuy ==
    /\ Quiet
    /\ \E ticker \in StopTickers, quantity \in StopBuyQuantities,
          price \in StopBuyPrices, stop_price \in StopLossPrices :
            BuyStock(ticker, quantity, price, stop_price)

StopSell ==
    /\ Quiet
    /\ \E ticker \in StopTickers, quantity \in StopSellQuantities,
          price \in StopSellPrices :
            SellStock(ticker, quantity, price)

\* get_portfolio_summary called on its own
GetPortfolioSummary ==
    /\ Quiet
    /\ \E quotes \in QuotesFor(holdings_file) :
         SummaryTaken(GetPortfolioSummaryRun(Current, quotes), quotes)
    /\ UNCHANGED <<transactions_file, result, pc, frame, start, fit, auto, quote,
                   cache_file, now, cq, stop, more_vars>>

\* scheduler.py lines 485-502: the log and the holdings are read, the map
\* is built, and the call returns at once when the map is empty
CheckStopLosses ==
    /\ Quiet
    /\ LET stop_loss_map == StopLossMap(transactions_file)
       IN  stop' = [pc |-> IF stop_loss_map = NoStopLossMap THEN "done"
                           ELSE IF holdings_file = <<>> THEN "tail" ELSE "loop",
                    holdings |-> holdings_file,
                    stop_loss_map |-> stop_loss_map,
                    i |-> 1,
                    seen |-> <<>>]
    /\ UNCHANGED <<cash_file, holdings_file, transactions_file, result, pc, frame,
                   start, fit, auto, quote, cache_file, now, cq, summary, more_vars>>

\* scheduler.py line 528
StopTriggered(current_price, stop_price) == current_price <= stop_price

StopSalePrice_Observed(current_price, stop_price) == current_price

\* scheduler.py line 536: the sale is made at the stop price
StopSalePrice(current_price, stop_price) == stop_price

PcAfterHolding_StopAtSkip(i, holdings, outcome) ==
    IF i = Len(holdings) \/ outcome = "noquote" THEN "tail" ELSE "loop"

\* the loop goes on to the next holding, whatever happened to this one
PcAfterHolding(i, holdings, outcome) ==
    IF i = Len(holdings) THEN "tail" ELSE "loop"

\* scheduler.py lines 508-557: one pass of the loop over the holdings
StopLossStep ==
    /\ stop.pc = "loop"
    /\ LET holding    == stop.holdings[stop.i]
           ticker     == holding.ticker
           stop_price == stop.stop_loss_map[ticker]
       IN  \E got \in (IF stop_price = <<>> THEN {<<>>} ELSE StopQuotes) :
             LET run == SellStockRun(Current, ticker, holding.quantity,
                                     StopSalePrice(got[1], stop_price[1]))
                 outcome ==
                     IF stop_price = <<>> THEN "nostop"
                     ELSE IF got = <<>> THEN "noquote"
                     ELSE IF ~StopTriggered(got[1], stop_price[1]) THEN "above"
                     ELSE IF run.status = "ok" THEN "sold" ELSE "failed"
             IN  /\ IF outcome = "sold"
                    THEN /\ cash_file' = run.ledger.cash_file
                         /\ holdings_file' = run.ledger.holdings_file
                         /\ transactions_file' = run.ledger.transactions_file
                    ELSE UNCHANGED <<cash_file, holdings_file, transactions_file>>
                 /\ stop' = [stop EXCEPT
                               !.pc = PcAfterHolding(stop.i, stop.holdings, outcome),
                               !.i = @ + 1,
                               !.seen = Append(@, [ticker |-> ticker,
                                                   stop_price |-> stop_price,
                                                   quote |-> got,
                                                   outcome |-> outcome])]
    /\ UNCHANGED <<result, pc, frame, start, fit, auto, quote, cache_file, now, cq,
                   summary, more_vars>>

\* scheduler.py lines 559-569: update_all_cached_quotes only asks for quotes;
\* _send_portfolio_email takes a portfolio summary (line 60)
StopLossTail ==
    /\ stop.pc = "tail"
    /\ \E quotes \in QuotesFor(holdings_file) :
         SummaryTaken(GetPortfolioSummaryRun(Current, quotes), quotes)
    /\ stop' = [stop EXCEPT !.pc = "done"]
    /\ UNCHANGED <<transactions_file, result, pc, frame, start, fit, auto, quote,
                   cache_file, now, cq, more_vars>>

NextStop ==
    \/ StopBuy
    \/ StopSell
    \/ GetPortfolioSummary
    \/ CheckStopLosses
    \/ StopLossStep
    \/ StopLossTail

SpecStop == Init /\ [][NextStop]_vars

(***************************************************************************)
(* Historical valuation of src/app.py (calculate_portfolio_value_on_date): *)
(* one step per call, on a ledger built by buys and sells.  A record's     *)
(* date is its position in the log, so target_date n takes the first n     *)
(* records.                                                                *)
(***************************************************************************)
\* starting_cash = 10000
StartingCash == 10000

\* line 627: the records dated up to target_date
RelevantTransactions(target_date, transactions) == SubSeq(transactions, 1, target_date)

\* line 636: the record is skipped (a Sell record has these fields empty)
SkippedInValuation(transaction) ==
    transaction.quantity = <<>> \/ transaction.buy_price = <<>> \/ transaction.total = <<>>

\* no ticker is a key of the holdings dict
NoValuationHoldings == [t \in StopTickers |-> <<>>]

\* lines 633-648: the holdings dict after the first n relevant records
RECURSIVE ValuationHoldings(_, _)
ValuationHoldings(relevant_transactions, n) ==
    IF n = 0 THEN NoValuationHoldings
    ELSE LET holdings    == ValuationHoldings(relevant_transactions, n - 1)
             transaction == relevant_transactions[n]
             ticker      == transaction.ticker
             before      == IF holdings[ticker] = <<>>
                            THEN [quantity |-> 0, total_cost |-> 0]
                            ELSE holdings[ticker][1]
         IN  IF SkippedInValuation(transaction) THEN holdings
             ELSE [holdings EXCEPT ![ticker] =
                     <<[quantity   |-> before.quantity + transaction.quantity[1],
                        total_cost |-> before.total_cost + transaction.total[1]]>>]

\* lines 633-649: total_invested after the first n relevant records
RECURSIVE TotalInvested(_, _)
TotalInvested(relevant_transactions, n) ==
    IF n = 0 THEN 0
    ELSE TotalInvested(relevant_transactions, n - 1)
         + (IF SkippedInValuation(relevant_transactions[n]) THEN 0
            ELSE relevant_transactions[n].total[1])

\* the keys of the holdings dict in the order they were inserted
RECURSIVE ValuationTickers(_, _)
ValuationTickers(relevant_transactions, n) ==
    IF n = 0 THEN <<>>
    ELSE LET earlier == ValuationTickers(relevant_transactions, n - 1)
             transaction == relevant_transactions[n]
         IN  IF SkippedInValuation(transaction)
                \/ \E k \in 1..Len(earlier) : earlier[k] = transaction.ticker
             THEN earlier
             ELSE Append(earlier, transaction.ticker)

\* what get_stock_quote may return to the get_cached_quote of line 655:
\* None or 43.00 from yfinance
ValuationFetches ==
    {f \in [StopTickers -> {<<>>} \cup {<<StampedQuote(t, ReturnedQuote(43000), "yfinance")>> :
                                          t \in StopTickers}] :
        \A t \in StopTickers : f[t] # <<>> => f[t][1].symbol = <<t>>}

\* lines 651-658: the cache file and holdings_value after the tickers from
\* the i-th on have been looked up
RECURSIVE HoldingsValueFrom(_, _, _, _, _)
HoldingsValueFrom(tickers, i, holdings, file, fetches) ==
    IF i > Len(tickers) THEN [cache_file |-> file, holdings_value |-> 0]
    ELSE LET ticker == tickers[i]
             held   == holdings[ticker][1]
         IN  IF held.quantity > 0
             THEN LET cached == GetCachedQuoteRun(file, now, ticker, FALSE, fetches[ticker])
                      rest   == HoldingsValueFrom(tickers, i + 1, holdings,
                                                  cached.cache_file, fetches)
                  IN  [rest EXCEPT !.holdings_value =
                         @ + (IF cached.result # <<>>
                              THEN cached.result[1].current_price * held.quantity
                              ELSE 0)]
             ELSE HoldingsValueFrom(tickers, i + 1, holdings, file, fetches)

\* calculate_portfolio_value_on_date: the cache file afterwards, the dict
\* returned, and the holdings dict the call built
PortfolioValueOnDateRun(target_date, transactions, file, fetches) ==
    LET relevant_transactions == RelevantTransactions(target_date, transactions)
        n == Len(relevant_transactions)
        holdings == ValuationHoldings(relevant_transactions, n)
        total_invested == TotalInvested(relevant_transactions, n)
        valued == HoldingsValueFrom(ValuationTickers(relevant_transactions, n), 1,
                                    holdings, file, fetches)
        current_cash == Mills(StartingCash) - total_invested
        total_value == valued.holdings_value + current_cash
    IN  [cache_file |-> valued.cache_file,
         holdings |-> holdings,
         result |-> [total_value    |-> total_value,
                     cash           |-> current_cash,
                     holdings_value |-> valued.holdings_value,
                     total_invested |-> total_invested,
                     gain_loss      |-> total_value - Mills(StartingCash),
                     gain_loss_percent |->
                        Rat((total_value - Mills(StartingCash)) * 100,
                            Mills(StartingCash))]]

CalculatePortfolioValueOnDate ==
    /\ Quiet
    /\ \E target_date \in 0..Len(transactions_file), fetches \in ValuationFetches :
         LET valued == PortfolioValueOnDateRun(target_date, transactions_file,
                                               cache_file, fetches)
         IN  /\ cache_file' = valued.cache_file
             /\ valuation' = [pc |-> "returned", target_date |-> target_date,
                              holdings |-> valued.holdings,
                              result |-> <<valued.result>>]
    /\ UNCHANGED <<cash_file, holdings_file, transactions_file, result, pc, frame,
                   start, fit, auto, quote, now, cq, stop, summary, exec, reader, umv>>

NextValuation == StopBuy \/ StopSell \/ CalculatePortfolioValueOnDate

SpecValuation == Init /\ [][NextValuation]_vars

(***************************************************************************)
(* get_cash_balance of src/portfolio_service.py called by one thread while *)
(* another thread is inside buy_stock / sell_stock.  The rewrite of the    *)
(* cash file is two steps here: open(self.cash_file, 'w') leaves the file  *)
(* empty, and the rows reach the file when the with block closes it.  An   *)
(* empty file is <<>>, as a missing one: both take get_cash_balance to its *)
(* except branch.  When two handles are open for writing, the rows of the  *)
(* one closed last are the ones a later read finds first.                  *)
(***************************************************************************)
\* the thread that buys or sells
Trader == "web"

\* ledgers with an initialised cash file: the initial 10000.00, and the
\* ledger after buy_stock("ABC", 2, 50.00)
CashStarts == {Ledger(UpdateCashBalance(Mills(DefaultCash)), <<>>, <<>>),
               BuyStockRun(Fresh, "ABC", 2, 50000, <<>>).ledger}

\* price of the trader's order
CashPrices == {45000, 50000}

\* _update_cash_balance: open(self.cash_file, 'w') truncates the file
OpenCashFile(p) ==
    /\ pc[p] \in {"buy_update_cash", "sell_update_cash"}
    /\ cash_file' = <<>>
    /\ UNCHANGED <<holdings_file, transactions_file>>
    /\ Goto(p, IF pc[p] = "buy_update_cash" THEN "buy_write_cash" ELSE "sell_write_cash",
            frame[p])

\* _update_cash_balance: the header and the balance are written and the
\* file is closed
WriteCashFile(p) ==
    /\ pc[p] \in {"buy_write_cash", "sell_write_cash"}
    /\ cash_file' = UpdateCashBalance(
                       IF pc[p] = "buy_write_cash"
                       THEN frame[p].current_cash - frame[p].quantity * frame[p].price
                       ELSE frame[p].current_cash + frame[p].quantity * frame[p].price)
    /\ UNCHANGED <<holdings_file, transactions_file>>
    /\ Goto(p, IF pc[p] = "buy_write_cash" THEN "buy_add_transaction"
               ELSE "sell_add_transaction",
            frame[p])

ReaderStep(next) ==
    /\ reader' = next
    /\ UNCHANGED <<holdings_file, transactions_file, result, pc, frame, start, fit, auto,
                   quote, cache_file, now, cq, stop, summary, exec, valuation, umv>>

\* get_cash_balance, the try block: open the file, read the first row
ReadCashFile ==
    /\ reader.pc = "idle"
    /\ UNCHANGED cash_file
    /\ IF cash_file # <<>>
       THEN ReaderStep([pc |-> "done", result |-> <<cash_file[1]>>])
       ELSE ReaderStep([reader EXCEPT !.pc = "reset_open"])

\* get_cash_balance, the except branch: self._update_cash_balance(10000.00)
\* opens the file for writing
ResetOpenCashFile ==
    /\ reader.pc = "reset_open"
    /\ cash_file' = <<>>
    /\ ReaderStep([reader EXCEPT !.pc = "reset_write"])

\* get_cash_balance, the except branch: the default is written, the file
\* closed, and 10000.00 returned
ResetWriteCashFile ==
    /\ reader.pc = "reset_write"
    /\ cash_file' = UpdateCashBalance(Mills(DefaultCash))
    /\ ReaderStep([pc |-> "done", result |-> <<Mills(DefaultCash)>>])

InitCash ==
    /\ start \in CashStarts
    /\ cash_file = start.cash_file
    /\ holdings_file = start.holdings_file
    /\ transactions_file = start.transactions_file
    /\ result = [op |-> "none", status |-> "none"]
    /\ pc = [p \in Procs |-> "idle"]
    /\ frame = [p \in Procs |-> NoFrame]
    /\ fit = NoFit
    /\ auto = NoAuto
    /\ quote = NoQuote
    /\ InitOther

NextCash ==
    \/ \E ticker \in ConcTickers, quantity \in ConcQuantities, price \in CashPrices :
          CallBuy(Trader, ticker, quantity, price, <<>>)
    \/ \E ticker \in ConcTickers, quantity \in ConcQuantities, price \in CashPrices :
          CallSell(Trader, ticker, quantity, price)
    \/ SellGetCash(Trader)
    \/ OpenCashFile(Trader)
    \/ WriteCashFile(Trader)
    \/ BuyAddTransaction(Trader)
    \/ BuyGetHoldings(Trader)
    \/ BuyUpdateHoldings(Trader)
    \/ SellAddTransaction(Trader)
    \/ SellGetHoldings(Trader)
    \/ SellUpdateHoldings(Trader)
    \/ ReadCashFile
    \/ ResetOpenCashFile
    \/ ResetWriteCashFile

SpecCash == InitCash /\ [][NextCash]_vars

(***************************************************************************)
(* update_market_values of src/portfolio_service.py called by one thread   *)
(* while another thread is inside buy_stock / sell_stock.  Each step is    *)
(* one file access with the computation that leads to it.                  *)
(***************************************************************************)
UpdateStep(next) ==
    /\ umv' = next
    /\ UNCHANGED <<cash_file, transactions_file, result, pc, frame, start, fit, auto,
                   quote, cache_file, now, cq, stop, summary, exec, valuation, reader>>

\* update_market_values lines 228-236: holdings = self.get_holdings(), and
\* the quote of each holding
UpdateGetHoldings ==
    /\ umv.pc = "idle"
    /\ UNCHANGED holdings_file
    /\ \E quotes \in QuotesFor(holdings_file) :
          UpdateStep([umv EXCEPT !.pc = "writing", !.holdings = holdings_file,
                                 !.quotes = quotes])

\* update_market_values lines 238-239: self._update_holdings(updated_holdings)
UpdateWriteHoldings ==
    /\ umv.pc = "writing"
    /\ LET updated_holdings == UpdateMarketValues(umv.holdings, umv.quotes)
       IN  /\ holdings_file' = updated_holdings
           /\ UpdateStep([umv EXCEPT !.pc = "done",
                                     !.updated_holdings = updated_holdings])

NextUpdate ==
    \/ \E ticker \in ConcTickers, quantity \in ConcQuantities, price \in CashPrices :
          CallBuy(Trader, ticker, quantity, price, <<>>)
    \/ \E ticker \in ConcTickers, quantity \in ConcQuantities, price \in CashPrices :
          CallSell(Trader, ticker, quantity, price)
    \/ BuyUpdateCash(Trader)
    \/ BuyAddTransaction(Trader)
    \/ BuyGetHoldings(Trader)
    \/ BuyUpdateHoldings(Trader)
    \/ SellGetCash(Trader)
    \/ SellUpdateCash(Trader)
    \/ SellAddTransaction(Trader)
    \/ SellGetHoldings(Trader)
    \/ SellUpdateHoldings(Trader)
    \/ UpdateGetHoldings
    \/ UpdateWriteHoldings

SpecUpdate == InitCash /\ [][NextUpdate]_vars

(***************************************************************************)
(* buy_stock and sell_stock of src/portfolio_service.py called one after   *)
(* the other from the initial ledger, with the quantities and prices a     *)
(* caller of the service can pass: no shares, one or two of them, at       *)
(* 50.00 or 1250.004.                                                      *)
(***************************************************************************)
AccountTickers == {"ABC", "DEF"}

AccountQuantities == {0, 1, 2}

AccountPrices == {50000, 1250004}

AccountBuy ==
    \E ticker \in AccountTickers, quantity \in AccountQuantities, price \in AccountPrices :
        BuyStock(ticker, quantity, price, <<>>)

AccountSell ==
    \E ticker \in AccountTickers, quantity \in AccountQuantities, price \in AccountPrices :
        SellStock(ticker, quantity, price)

NextAccounts == AccountBuy \/ AccountSell

SpecAccounts == Init /\ [][NextAccounts]_vars

(***************************************************************************)
(* Scheduled run of src/scheduler.py (run_ai_predictor_with_execution)     *)
(* with sell decisions: get_stock_recommendations takes a portfolio        *)
(* summary, validates what the AI proposed against looked-up prices and    *)
(* fits the buys to the cash balance; then the sell decisions are          *)
(* processed one per step, then the buys one per step, then the e-mail's   *)
(* summary is taken.  exec.seen lists what was done with each order.       *)
(***************************************************************************)
\* ledgers the run may start from: the fresh one; ABC and DEF held, 2 shares
\* each; cash of 560.00 with ABC and DEF held; ABC held with quantity 0
RunStarts ==
    {Fresh,
     BuyStockRun(BuyStockRun(Fresh, "ABC", 2, 50000, <<>>).ledger,
                 "DEF", 2, 50000, <<>>).ledger,
     BuyStockRun(BuyStockRun(Fresh, "DEF", 1, 9340000, <<>>).ledger,
                 "ABC", 2, 50000, <<>>).ledger,
     BuyStockRun(Fresh, "ABC", 0, 50000, <<>>).ledger}

\* a validated sell decision
SellDecision(ticker, action) ==
    [ticker |-> ticker, action |-> action, current_price |-> 45000]

RunSellChoices ==
    {SellDecision(ticker, action) :
        ticker \in StopTickers, action \in {"SELL", "TRIM", "HOLD"}}

\* the validated sell decisions of a run: none, one or two
RunSellDecisions ==
    {<<>>} \cup {<<a>> : a \in RunSellChoices}
           \cup {<<a, b>> : a \in RunSellChoices, b \in RunSellChoices}

\* a buy recommendation as the AI proposed it: no current_price yet (0)
ProposedBuy(ticker, quantity, buy_price, stop_loss_price) ==
    [ticker |-> ticker, quantity |-> quantity, current_price |-> 0,
     buy_price |-> buy_price, stop_loss_price |-> stop_loss_price,
     original_quantity |-> <<>>, original_cost |-> <<>>, shares_reduced |-> <<>>,
     shares_reduced_count |-> <<>>, final_cost |-> <<>>]

\* quantity, buy_price and stop_loss_price of a proposed buy
RunBuyChoices ==
    {<<-2, 50000, <<>>>>, <<0, 50000, <<>>>>, <<3, 50000, <<60000>>>>,
     <<3, 0, <<>>>>, <<3, 50000, <<42504>>>>}

\* the buys the AI proposes: none, one (ABC) or two (ABC, DEF)
RunProposedBuys ==
    {<<>>}
    \cup {<<ProposedBuy("ABC", a[1], a[2], a[3])>> : a \in RunBuyChoices}
    \cup {<<ProposedBuy("ABC", a[1], a[2], a[3]), ProposedBuy("DEF", b[1], b[2], b[3])>> :
             a \in RunBuyChoices, b \in RunBuyChoices}

\* what get_current_price returns: None, 0 or 50.00
RunLookups == {<<>>, <<0>>, <<50000>>}

\* round(current_price * 0.85, 2)
CorrectedStopLoss(current_price) == FormatCash((current_price * 85) \div 100)

\* _validate_recommendations lines 318-340: a buy whose ticker has a price
\* above 0 is kept with that price (and a stop price not below it is set
\* to 85% of it); a buy whose lookup gave None or 0 is dropped
ValidatedBuy(buy_rec, looked) ==
    IF looked # <<>> /\ looked[1] > 0
    THEN LET suggested_stop_loss ==
                 IF buy_rec.stop_loss_price = <<>> THEN 0
                 ELSE buy_rec.stop_loss_price[1]
         IN  <<[buy_rec EXCEPT
                  !.current_price = looked[1],
                  !.stop_loss_price =
                      IF suggested_stop_loss >= looked[1]
                      THEN <<CorrectedStopLoss(looked[1])>> ELSE @]>>
    ELSE <<>>

RECURSIVE ValidateBuysFrom(_, _, _)
ValidateBuysFrom(recs, lookups, i) ==
    IF i > Len(recs) THEN <<>>
    ELSE ValidatedBuy(recs[i], lookups[i]) \o ValidateBuysFrom(recs, lookups, i + 1)

ValidateBuys(recs, lookups) == ValidateBuysFrom(recs, lookups, 1)

\* scheduler.py lines 299-321: the cash balance is read, and
\* get_stock_recommendations takes a summary, validates the proposed buys
\* and hands them to the share reduction with the summary's cash balance
RunStart ==
    /\ exec.pc = "idle"
    /\ \E sells \in RunSellDecisions, proposed \in RunProposedBuys,
          quotes \in QuotesFor(holdings_file) :
         \E lookups \in [1..Len(proposed) -> RunLookups] :
            LET taken == GetPortfolioSummaryRun(Current, quotes)
            IN  /\ FitCall(taken.result.cash_balance, ValidateBuys(proposed, lookups))
                /\ SummaryTaken(taken, quotes)
                /\ exec' = [NoRun EXCEPT !.pc = "recommending",
                                         !.sell_decisions = sells,
                                         !.cash_balance = GetCashBalance(cash_file)]
    /\ UNCHANGED <<transactions_file, result, pc, frame, start, auto, quote,
                   cache_file, now, cq, stop, valuation, reader, umv>>

\* lines 323-326: the recommendations are back, the sell loop starts
RunRecommended ==
    /\ exec.pc = "recommending"
    /\ fit.pc = "returned"
    /\ exec' = [exec EXCEPT !.pc = IF exec.sell_decisions = <<>> THEN "tobuy"
                                   ELSE "selling",
                            !.i = 1]
    /\ UNCHANGED <<cash_file, holdings_file, transactions_file, result, pc, frame,
                   start, fit, auto, quote, cache_file, now, cq, stop, summary,
                   valuation, reader, umv>>

\* lines 346-353: SELL sells all shares, TRIM half of them and at least 1
QuantityToSell(action, total_shares) ==
    IF action = "SELL" THEN total_shares
    ELSE IF total_shares \div 2 > 1 THEN total_shares \div 2 ELSE 1

\* what the run notes about an order it has dealt with
Dealt(kind, ticker, outcome, current_cash) ==
    [kind |-> kind, ticker |-> ticker, outcome |-> outcome,
     current_cash |-> current_cash]

\* the sell loop goes on to the next decision, whatever happened to this one
PcAfterSell(i, sell_decisions, outcome) ==
    IF i = Len(sell_decisions) THEN "tobuy" ELSE "selling"

\* lines 327-397: one pass of the sell loop
RunSell ==
    /\ exec.pc = "selling"
    /\ LET sell_rec == exec.sell_decisions[exec.i]
           ticker   == sell_rec.ticker
           h        == FindHolding(holdings_file, ticker)
           sold     == SellStockRun(Current, ticker,
                                    QuantityToSell(sell_rec.action,
                                                   holdings_file[h].quantity),
                                    sell_rec.current_price)
           outcome  == IF sell_rec.action = "HOLD" THEN "hold"
                       ELSE IF h = 0 THEN "noholding"
                       ELSE IF sell_rec.action \notin {"SELL", "TRIM"} THEN "unknown"
                       ELSE IF sold.status = "ok" THEN "sold" ELSE "failed"
       IN  /\ IF outcome = "sold"
              THEN /\ cash_file' = sold.ledger.cash_file
                   /\ holdings_file' = sold.ledger.holdings_file
                   /\ transactions_file' = sold.ledger.transactions_file
              ELSE UNCHANGED <<cash_file, holdings_file, transactions_file>>
           /\ exec' = [exec EXCEPT
                         !.pc = PcAfterSell(exec.i, exec.sell_decisions, outcome),
                         !.i = @ + 1,
                         !.seen = Append(@, Dealt("sell", ticker, outcome, <<>>))]
    /\ UNCHANGED <<result, pc, frame, start, fit, auto, quote, cache_file, now, cq,
                   stop, summary, valuation, reader, umv>>

\* lines 399-405: the cash balance is read again before the buys
RunBeginBuys ==
    /\ exec.pc = "tobuy"
    /\ exec' = [exec EXCEPT
                  !.pc = IF fit.recommendations.buy_recommendations = <<>>
                         THEN "tail" ELSE "buying",
                  !.i = 1,
                  !.cash_balance = GetCashBalance(cash_file)]
    /\ UNCHANGED <<cash_file, holdings_file, transactions_file, result, pc, frame,
                   start, fit, auto, quote, cache_file, now, cq, stop, summary,
                   valuation, reader, umv>>

CashForCheck_AtLoopStart(cash_balance, cf) == cash_balance

\* line 427: the balance as it stands when the buy is looked at
CashForCheck(cash_balance, cf) == GetCashBalance(cf)

\* lines 407-460: one pass of the buy loop
RunBuy ==
    /\ exec.pc = "buying"
    /\ LET buy_rec == fit.recommendations.buy_recommendations[exec.i]
           ticker  == buy_rec.ticker
           given   == IF buy_rec.current_price # 0 THEN buy_rec.current_price
                      ELSE buy_rec.buy_price
       IN  \E got \in (IF given <= 0 THEN RunLookups ELSE {<<>>}) :
             LET current_price == IF given <= 0 THEN got[1] ELSE given
                 total_cost    == buy_rec.quantity * current_price
                 current_cash  == CashForCheck(exec.cash_balance, cash_file)
                 bought        == BuyStockRun(Current, ticker, buy_rec.quantity,
                                              current_price, buy_rec.stop_loss_price)
                 outcome ==
                     IF given <= 0 /\ got = <<>> THEN "noquote"
                     ELSE IF current_price <= 0 THEN "invalid"
                     ELSE IF total_cost > current_cash THEN "insufficient"
                     ELSE IF bought.status = "ok" THEN "bought" ELSE "failed"
             IN  /\ IF outcome \in {"bought", "failed"}
                    THEN /\ cash_file' = bought.ledger.cash_file
                         /\ holdings_file' = bought.ledger.holdings_file
                         /\ transactions_file' = bought.ledger.transactions_file
                    ELSE UNCHANGED <<cash_file, holdings_file, transactions_file>>
                 /\ exec' = [exec EXCEPT
                               !.pc = IF exec.i = Len(fit.recommendations.buy_recommendations)
                                      THEN "tail" ELSE "buying",
                               !.i = @ + 1,
                               !.seen = Append(@,
                                   Dealt("buy", ticker, outcome,
                                         IF outcome \in {"noquote", "invalid"}
                                         THEN <<>> ELSE <<current_cash>>))]
    /\ UNCHANGED <<result, pc, frame, start, fit, auto, quote, cache_file, now, cq,
                   stop, summary, valuation, reader, umv>>

\* lines 462-474: update_all_cached_quotes only asks for quotes;
\* _send_portfolio_email takes a portfolio summary
RunTail ==
    /\ exec.pc = "tail"
    /\ \E quotes \in QuotesFor(holdings_file) :
         SummaryTaken(GetPortfolioSummaryRun(Current, quotes), quotes)
    /\ exec' = [exec EXCEPT !.pc = "done"]
    /\ UNCHANGED <<transactions_file, result, pc, frame, start, fit, auto, quote,
                   cache_file, now, cq, stop, valuation, reader, umv>>

InitRun ==
    /\ start \in RunStarts
    /\ cash_file = start.cash_file
    /\ holdings_file = start.holdings_file
    /\ transactions_file = start.transactions_file
    /\ result = [op |-> "none", status |-> "none"]
    /\ pc = [p \in Procs |-> "idle"]
    /\ frame = [p \in Procs |-> NoFrame]
    /\ fit = NoFit
    /\ auto = NoAuto
    /\ quote = NoQuote
    /\ InitOther

NextRun ==
    \/ RunStart
    \/ FitRound
    \/ FitFinish
    \/ RunRecommended
    \/ RunSell
    \/ RunBeginBuys
    \/ RunBuy
    \/ RunTail

SpecRun == InitRun /\ [][NextRun]_vars

\* the ledger a call leaves when it runs alone from ledger L
RunAlone(L, f) ==
    IF f.op = "buy"
    THEN BuyStockRun(L, f.ticker, f.quantity, f.price, f.stop_price).ledger
    ELSE SellStockRun(L, f.ticker, f.quantity, f.price).ledger

(***************************************************************************)
(* Observations used by the properties.                                    *)
(***************************************************************************)
\* the balance a caller of get_cash_balance would see
Balance == GetCashBalance(cash_file)

\* the tickers a holding can carry
HeldTickers == {Upper(t) : t \in Tickers}

IsHeld(holdings, ticker) == FindHolding(holdings, ticker) # 0

\* the row of a held ticker
Holding(holdings, ticker) == holdings[FindHolding(holdings, ticker)]

\* quantity held of a ticker, 0 when it has no row
HeldQuantity(holdings, ticker) ==
    IF IsHeld(holdings, ticker) THEN Holding(holdings, ticker).quantity ELSE 0

\* a ledger shows the same balance, holdings and log as the current one
SameAsCurrent(L) ==
    /\ GetCashBalance(L.cash_file) = Balance
    /\ L.holdings_file = holdings_file
    /\ L.transactions_file = transactions_file

LedgerUnchanged ==
    /\ Balance' = Balance
    /\ holdings_file' = holdings_file
    /\ transactions_file' = transactions_file

LastTransaction == transactions_file[Len(transactions_file)]

\* the step is a buy_stock / sell_stock call that returned normally
BuyReturned == result'.op = "buy" /\ result'.status = "ok"

SellReturned == result'.op = "sell" /\ result'.status = "ok"

(***************************************************************************)
(* C1.  Along every sequence of buy_stock and sell_stock calls the cash    *)
(* balance is never negative and no holding has a negative quantity.       *)
(***************************************************************************)
C1_CashAndQuantitiesNonNegative ==
    /\ Balance >= 0
    /\ \A i \in 1..Len(holdings_file) : holdings_file[i].quantity >= 0

(***************************************************************************)
(* C2.  A call never leaves a partial update behind: a call that ends in   *)
(* an error has changed none of cash balance, holdings and transaction     *)
(* log; a call that returns normally has appended its record.              *)
(***************************************************************************)
C2_AllOrNothing ==
    [][IF result'.status = "ok"
       THEN Len(transactions_file') = Len(transactions_file) + 1
       ELSE LedgerUnchanged]_vars

(***************************************************************************)
(* C3.  Two calls running at the same time do not interleave their         *)
(* updates: once both have ended, balance, holdings and log are those that *)
(* one of the two serial orders of the same calls leaves.                  *)
(***************************************************************************)
C3_Serializable ==
    (\A p \in Procs : pc[p] = "done") =>
        \/ SameAsCurrent(RunAlone(RunAlone(start, frame["web"]), frame["sched"]))
        \/ SameAsCurrent(RunAlone(RunAlone(start, frame["sched"]), frame["web"]))

(***************************************************************************)
(* C4.  In every reachable ledger, buy_stock raises "Insufficient funds"   *)
(* exactly when quantity * price exceeds the balance; a buy costing        *)
(* exactly the balance is not rejected and leaves a balance of 0; a buy    *)
(* rejected for insufficient funds changes neither balance, holdings nor   *)
(* log.                                                                    *)
(***************************************************************************)
C4_InsufficientFundsExact ==
    \A t \in Tickers, q \in Quantities, p \in Prices, s \in StopPrices :
        \A run \in {BuyStockRun(Current, t, q, p, s)} :
            /\ (run.status = "InsufficientFunds") <=> (q * p > Balance)
            /\ (run.status = "InsufficientFunds") => SameAsCurrent(run.ledger)
            /\ (q * p = Balance) => GetCashBalance(run.ledger.cash_file) = 0

\* a buy that cost the whole balance went through, and the next buy was rejected
C4_Witness ==
    /\ result = [op |-> "buy", status |-> "InsufficientFunds"]
    /\ cash_file = <<0>>
    /\ Len(transactions_file) > 0

(***************************************************************************)
(* C5.  In every reachable ledger, sell_stock raises "No holdings" when    *)
(* the ticker has no holding and "Cannot sell" when the quantity exceeds   *)
(* the held quantity; selling exactly the held quantity succeeds; both     *)
(* errors leave balance, holdings and log unchanged.                       *)
(***************************************************************************)
C5_SellErrors ==
    \A t \in Tickers, q \in Quantities, p \in Prices :
        \A run \in {SellStockRun(Current, t, q, p)} :
            LET held == IsHeld(holdings_file, Upper(t))
            IN  /\ (~held) => (run.status = "NoHoldings" /\ SameAsCurrent(run.ledger))
                /\ (held /\ q > HeldQuantity(holdings_file, Upper(t))) =>
                      (run.status = "InsufficientShares" /\ SameAsCurrent(run.ledger))
                /\ (held /\ q = HeldQuantity(holdings_file, Upper(t))) =>
                      run.status = "ok"

\* a sale of more than the held quantity was rejected while two tickers are held
C5_Witness ==
    /\ result = [op |-> "sell", status |-> "InsufficientShares"]
    /\ Len(holdings_file) = 2

(***************************************************************************)
(* C6.  buy_stock rejects every call with quantity <= 0: a buy record with *)
(* a quantity <= 0 is never written and such a call changes nothing.       *)
(***************************************************************************)
C6_NonPositiveQuantityRejected ==
    [][(result'.op = "buy" /\ transactions_file' # transactions_file) =>
          LastTransaction'.quantity[1] > 0]_vars

(***************************************************************************)
(* C7.  A buy of an already held ticker that returns normally sets the     *)
(* holding's quantity to old_qty + q and its average_cost to               *)
(* (old_qty * old_avg + q * p) / (old_qty + q); and a ticker whose log     *)
(* consists of exactly two buys q1 at p1 and q2 at p2 is held with         *)
(* quantity q1 + q2 at average_cost (q1*p1 + q2*p2) / (q1 + q2).           *)
(***************************************************************************)
RecordsOf(ticker) ==
    {i \in 1..Len(transactions_file) : transactions_file[i].ticker = ticker}

C7_EveryBuyAverages ==
    (BuyReturned /\ IsHeld(holdings_file, LastTransaction'.ticker)) =>
        LET t   == LastTransaction'.ticker
            q   == LastTransaction'.quantity[1]
            p   == LastTransaction'.buy_price[1]
            old == Holding(holdings_file, t)
            new == Holding(holdings_file', t)
        IN  /\ IsHeld(holdings_file', t)
            /\ new.quantity = old.quantity + q
            /\ new.average_cost.n * old.average_cost.d * (old.quantity + q)
                 = (old.quantity * old.average_cost.n + q * p * old.average_cost.d)
                     * new.average_cost.d

C7_TwoBuys ==
    \A t \in HeldTickers :
        \A i, j \in RecordsOf(t) :
            LET b1 == transactions_file[i]
                b2 == transactions_file[j]
            IN  (/\ i < j
                 /\ RecordsOf(t) = {i, j}
                 /\ b1.quantity # <<>> /\ b2.quantity # <<>>
                 /\ b1.quantity[1] + b2.quantity[1] # 0) =>
                    LET q1 == b1.quantity[1]
                        q2 == b2.quantity[1]
                        p1 == b1.buy_price[1]
                        p2 == b2.buy_price[1]
                        h  == Holding(holdings_file, t)
                    IN  /\ IsHeld(holdings_file, t)
                        /\ h.quantity = q1 + q2
                        /\ h.average_cost.n * (q1 + q2)
                             = (q1 * p1 + q2 * p2) * h.average_cost.d

C7_WeightedAverageCost == []C7_TwoBuys /\ [][C7_EveryBuyAverages]_vars

\* two buys of one ticker with different quantities and prices have returned
C7_Witness ==
    /\ result = [op |-> "buy", status |-> "ok"]
    /\ Len(transactions_file) = 2
    /\ transactions_file[1].ticker = transactions_file[2].ticker
    /\ transactions_file[1].quantity = <<1>>
    /\ transactions_file[2].quantity = <<2>>
    /\ transactions_file[1].buy_price # transactions_file[2].buy_price
    /\ Len(holdings_file) = 1
    /\ holdings_file[1].quantity = 3

(***************************************************************************)
(* C8.  A sale of the whole held quantity removes the ticker from the      *)
(* holdings, and a buy of a ticker that is not held creates a holding      *)
(* whose average_cost is the buy price, whatever the ticker's              *)
(* average_cost was before it was sold.                                    *)
(***************************************************************************)
C8_FullSaleRemoves ==
    (SellReturned /\
       LastTransaction'.sell_quantity[1]
          = HeldQuantity(holdings_file, LastTransaction'.ticker)) =>
        ~IsHeld(holdings_file', LastTransaction'.ticker)

C8_BuyStartsFresh ==
    (BuyReturned /\ ~IsHeld(holdings_file, LastTransaction'.ticker)) =>
        /\ IsHeld(holdings_file', LastTransaction'.ticker)
        /\ Holding(holdings_file', LastTransaction'.ticker).average_cost
             = RatOfInt(LastTransaction'.buy_price[1])

C8_FreshCostBasis == [][C8_FullSaleRemoves /\ C8_BuyStartsFresh]_vars

\* bought at one price, sold completely, bought again at another price
C8_Witness ==
    /\ result = [op |-> "buy", status |-> "ok"]
    /\ Len(transactions_file) = 3
    /\ \A i \in 1..3 : transactions_file[i].ticker = "ABC"
    /\ transactions_file[1].quantity = <<2>>
    /\ transactions_file[2].sell_quantity = <<2>>
    /\ transactions_file[3].buy_price # <<>>
    /\ transactions_file[3].buy_price # transactions_file[1].buy_price
    /\ Holding(holdings_file, "ABC").average_cost
         = RatOfInt(transactions_file[3].buy_price[1])

(***************************************************************************)
(* C9.  A sale of less than the held quantity that returns normally keeps  *)
(* the holding with its average_cost unchanged and leaves the row of every *)
(* other ticker as it was.                                                 *)
(***************************************************************************)
C9_PartialSaleKeepsCost ==
    [][(SellReturned /\
          LastTransaction'.sell_quantity[1]
             < HeldQuantity(holdings_file, LastTransaction'.ticker)) =>
         LET t == LastTransaction'.ticker
         IN  /\ IsHeld(holdings_file', t)
             /\ Holding(holdings_file', t).average_cost
                  = Holding(holdings_file, t).average_cost
             /\ Len(holdings_file') = Len(holdings_file)
             /\ \A i \in 1..Len(holdings_file) :
                   holdings_file[i].ticker # t =>
                      holdings_file'[i] = holdings_file[i]]_vars

\* one of two shares was sold while another ticker is held
C9_Witness ==
    /\ result = [op |-> "sell", status |-> "ok"]
    /\ Len(holdings_file) = 2
    /\ LastTransaction.sell_quantity = <<1>>
    /\ Holding(holdings_file, LastTransaction.ticker).quantity = 1

(***************************************************************************)
(* C10.  A sell_stock call that returns normally appends exactly one Sell  *)
(* record whose gain_loss is q*p - q*average_cost (the average_cost before *)
(* the sale), lowers the held quantity by q, and changes the balance as    *)
(* stated by C10_ExactCredit or C10_RoundedCredit.                         *)
(***************************************************************************)
C10_SellRecordAndQuantity ==
    LET tx  == LastTransaction'
        q   == tx.sell_quantity[1]
        p   == tx.sell_price[1]
        avg == Holding(holdings_file, tx.ticker).average_cost
    IN  /\ Len(transactions_file') = Len(transactions_file) + 1
        /\ SubSeq(transactions_file', 1, Len(transactions_file)) = transactions_file
        /\ tx.quantity = <<>> /\ tx.buy_price = <<>>
        /\ tx.gain_loss[1].n * avg.d = (q * p * avg.d - q * avg.n) * tx.gain_loss[1].d
        /\ HeldQuantity(holdings_file', tx.ticker)
             = HeldQuantity(holdings_file, tx.ticker) - q

\* C10 as claimed: the balance grows by exactly q*p
C10_ExactCredit ==
    [][SellReturned =>
         /\ C10_SellRecordAndQuantity
         /\ Balance' = Balance
              + LastTransaction'.sell_quantity[1] * LastTransaction'.sell_price[1]]_vars

\* C10 amended: the new balance is the old balance plus q*p, rounded to the
\* nearest cent (a whole number of cents at most half a cent away)
C10_RoundedCredit ==
    [][SellReturned =>
         LET exact == Balance
                + LastTransaction'.sell_quantity[1] * LastTransaction'.sell_price[1]
         IN  /\ C10_SellRecordAndQuantity
             /\ Balance' % 10 = 0
             /\ Balance' - exact <= 5
             /\ exact - Balance' <= 5]_vars

\* two shares bought at different prices, one sold at a price with a
\* fraction of a cent
C10_Witness ==
    /\ result = [op |-> "sell", status |-> "ok"]
    /\ LastTransaction.sell_quantity = <<1>>
    /\ LastTransaction.sell_price[1] % 10 # 0
    /\ LastTransaction.gain_loss[1].n # 0
    /\ Len(holdings_file) = 1
    /\ \A p \in Prices : holdings_file[1].average_cost # RatOfInt(p)

\* ---------------------------------------------------------------------
\* C11: in every state reached by buy_stock and sell_stock calls, every
\* holding present in the holdings file has a quantity strictly above 0
C11_HoldingsPositive ==
    \A i \in 1..Len(holdings_file) : holdings_file[i].quantity > 0

\* ---------------------------------------------------------------------
\* C12: the transaction log is append-only: a call that returns
\* successfully appends exactly one record at the end, a call that fails
\* appends nothing, and no call changes, reorders or removes a record
\* that is already in the log
C12_OldRecordsKept ==
    /\ Len(transactions_file') >= Len(transactions_file)
    /\ SubSeq(transactions_file', 1, Len(transactions_file)) = transactions_file

C12_AppendOnly ==
    [][/\ C12_OldRecordsKept
       /\ Len(transactions_file') =
            Len(transactions_file) + (IF result'.status = "ok" THEN 1 ELSE 0)]_vars

(***************************************************************************)
(* Share reduction: what a returned call shows.                            *)
(***************************************************************************)
FitReturned == fit.pc = "returned"

\* the call went through the reduction loop and the final pass
ReductionApplied == FitReturned /\ fit.exit \in {"budget", "exhausted", "cap"}

\* what the buys may cost: available_cash less 500.00
Budget == fit.available_cash - 500000

\* cost of the buys as proposed
ProposedCost == TotalCost(fit.orders)

Returned == fit.recommendations.buy_recommendations

Max(a, b) == IF a >= b THEN a ELSE b

\* cost of the proposed buys after k rounds of taking one share from each
RECURSIVE CostAfter(_, _)
CostAfter(orders, k) ==
    IF orders = <<>> THEN 0
    ELSE Head(orders).current_price * Max(0, Head(orders).quantity - k)
         + CostAfter(Tail(orders), k)

C14_NoReductionWithinBudget ==
    (FitReturned /\ ProposedCost <= Budget) =>
        /\ Len(Returned) = Len(fit.orders)
        /\ \A i \in 1..Len(fit.orders) :
              /\ Returned[i].ticker = fit.orders[i].ticker
              /\ Returned[i].quantity = fit.orders[i].quantity
              /\ Returned[i].current_price = fit.orders[i].current_price
              /\ Returned[i].shares_reduced = <<FALSE>>

\* two buys costing exactly available_cash - 500 were returned
C14_Witness ==
    /\ FitReturned
    /\ Len(fit.orders) = 2
    /\ ProposedCost = Budget
    /\ Len(Returned) = 2
\* ---------------------------------------------------------------------
\* shares the i-th proposed buy keeps after k rounds
LeftAfter(i, k) == Max(0, fit.orders[i].quantity - k)

\* after k rounds no proposed buy has a share left
AllGone(k) == \A i \in 1..Len(fit.orders) : fit.orders[i].quantity <= k

\* the returned list is the proposed buys that keep a share after r
\* rounds, in their order, each with the quantity it keeps
C15_ReturnedAfter(r) ==
    LET left == [i \in 1..Len(fit.orders) |->
                    [ticker |-> fit.orders[i].ticker, quantity |-> LeftAfter(i, r)]]
        got  == [i \in 1..Len(Returned) |->
                    [ticker |-> Returned[i].ticker, quantity |-> Returned[i].quantity]]
    IN  got = SelectSeq(left, LAMBDA o : o.quantity > 0)

C15_NeverNegative ==
    \A i \in 1..Len(Returned) : Returned[i].quantity >= 0

C16_Terminates == (fit.pc = "loop") ~> (fit.pc = "returned")

\* no result reports more than 1000 reduction rounds
C16_AtMostThousandRounds ==
    (FitReturned /\ fit.recommendations.reduction_rounds # <<>>) =>
        fit.recommendations.reduction_rounds[1] <= 1000

\* C16: _apply_share_reduction_logic terminates on every input and the
\* loop never makes more than 1000 rounds: reduction_rounds <= 1000 in
\* every result
C16_TerminatesWithinCap ==
    /\ C16_Terminates
    /\ [](fit.reduction_rounds <= 1000 /\ C16_AtMostThousandRounds)
\* ---------------------------------------------------------------------
\* the loop was left by the safety check with the cost still above
\* available_cash - 500
CapHitOverBudget ==
    /\ FitReturned
    /\ fit.exit = "cap"
    /\ fit.recommendations.final_total_cost[1] > Budget

\* the flags of a result: share_reduction_applied on the result and
\* shares_reduced on every returned buy
FlagsOf(recommendations) ==
    [share_reduction_applied |-> recommendations.share_reduction_applied,
     shares_reduced |->
        {recommendations.buy_recommendations[i].shares_reduced :
            i \in 1..Len(recommendations.buy_recommendations)}]

\* the flags of a reduction that reached the budget by taking shares from
\* every returned buy
OrdinaryFitFlags ==
    [share_reduction_applied |-> <<TRUE>>, shares_reduced |-> {<<TRUE>>}]

\* C17: a result of a reduction stopped by the round cap above the budget
\* carries the partial reduction and a flag that sets it apart from a
\* reduction that reached the budget
C17_CapFlagged ==
    CapHitOverBudget =>
        /\ C15_ReturnedAfter(fit.recommendations.reduction_rounds[1])
        /\ FlagsOf(fit.recommendations) # OrdinaryFitFlags

\* ---------------------------------------------------------------------
\* sum of price * quantity over the i-th to the last of a list
RECURSIVE C18_SumFrom(_, _)
C18_SumFrom(recs, i) ==
    IF i > Len(recs) THEN 0
    ELSE recs[i].current_price * recs[i].quantity + C18_SumFrom(recs, i + 1)

AutoDone == auto.pc = "done"

\* C19: when the scheduled run has executed the fitted buys, the cash
\* balance is at least 500 if it was at least 500 before them, and the
\* buys have cost no more than the fitted final_total_cost
C19_BufferKept ==
    AutoDone =>
        /\ auto.cash_balance >= 500000 => Balance >= 500000
        /\ fit.recommendations.final_total_cost # <<>> =>
              auto.cash_balance - Balance <= fit.recommendations.final_total_cost[1]

\* the same, for the runs whose reduction was not stopped by the round cap
C19_BufferKeptUnlessCapped ==
    fit.exit # "cap" => C19_BufferKept
\* ---------------------------------------------------------------------
\* the adapter call ended in a quote
C20_Succeeded(call) == call.outcome.kind = "quote"

\* C20: get_stock_quote calls the adapters one after another in the order
\* chosen for the call; every call but the last made has failed; as soon as
\* a call succeeds the quote returned carries its price and the name of
\* its adapter as api_source, and no further adapter is called
C20_FirstSuccessReturned ==
    LET n == Len(quote.tried)
    IN  /\ n <= Len(quote.apis_to_try)
        /\ \A j \in 1..n : quote.tried[j].api = quote.apis_to_try[j]
        /\ \A j \in 1..(n - 1) : ~C20_Succeeded(quote.tried[j])
        /\ (n > 0 /\ C20_Succeeded(quote.tried[n])) =>
              /\ quote.pc = "returned"
              /\ quote.result # <<>>
              /\ quote.result[1].current_price = quote.tried[n].outcome.current_price
              /\ quote.result[1].api_source = quote.tried[n].api
        /\ (quote.pc = "returned" /\ quote.result # <<>>) =>
              n > 0 /\ C20_Succeeded(quote.tried[n])

\* the first adapter failed, the second gave 123.45 and was returned, the
\* other three were not called
C20_Witness ==
    /\ quote.pc = "returned"
    /\ Len(quote.tried) = 2
    /\ quote.tried[1].outcome.kind \in {"raise", "none"}
    /\ quote.result # <<>>
    /\ quote.result[1].current_price = 123450
    /\ quote.result[1].api_source = quote.apis_to_try[2]
    /\ Len(quote.apis_to_try) = 5
\* ---------------------------------------------------------------------
\* every adapter of self.apis has been called exactly once
C21_EachTriedOnce ==
    /\ Len(quote.tried) = 5
    /\ \A name \in {"yfinance", "pyfinviz", "alpha_vantage", "finnhub", "free_api"} :
          Cardinality({j \in 1..Len(quote.tried) : quote.tried[j].api = name}) = 1

C21_AllFailed ==
    \A j \in 1..Len(quote.tried) : quote.tried[j].outcome.kind \in {"raise", "none"}

\* C21: when every adapter has failed, by raising or by returning nothing,
\* get_stock_quote has returned None; it returns None only after each
\* adapter has been tried exactly once and has failed
C21_NoneAfterAllFailed ==
    /\ (C21_EachTriedOnce /\ C21_AllFailed) =>
          quote.pc = "returned" /\ quote.result = <<>>
    /\ (quote.pc = "returned" /\ quote.result = <<>>) =>
          C21_EachTriedOnce /\ C21_AllFailed

\* the call returned None after yfinance returned None and the others raised
C21_Witness ==
    /\ quote.pc = "returned"
    /\ quote.result = <<>>
    /\ Len(quote.tried) = 5
    /\ \E j \in 1..5 : quote.tried[j].outcome.kind = "none"
    /\ \E j \in 1..5 : quote.tried[j].outcome.kind = "raise"

\* ---------------------------------------------------------------------
\* C22: get_stock_quote never returns a quote whose current_price is 0; an
\* adapter call that gave a price of 0 is followed by the next adapter
C22_NoZeroPriceQuote ==
    /\ quote.result # <<>> => quote.result[1].current_price # 0
    /\ \A j \in 1..Len(quote.tried) :
          (quote.tried[j].outcome.kind = "quote"
             /\ quote.tried[j].outcome.current_price = 0
             /\ j < Len(quote.apis_to_try))
          => (quote.pc = "trying" \/ Len(quote.tried) > j)

(***************************************************************************)
(* Quote cache: what a call of get_cached_quote shows.  A step that leaves *)
(* the clock alone is a call; cq' holds its arguments and its outcome.     *)
(***************************************************************************)
CacheCallStep == now' = now

\* the rows of the cache that are not the symbol's
OtherRows(rows, symbol) == SelectSeq(rows, LAMBDA row : row.ticker # symbol)

\* the rows of the cache that are the symbol's
RowsOf(rows, symbol) == SelectSeq(rows, LAMBDA row : row.ticker = symbol)

\* minutes since the row was fetched
AgeAt(row, t) == (t - row.timestamp) * 30

\* ---------------------------------------------------------------------
\* C23: a call without force_refresh for a ticker whose entry is less than
\* an hour old returns that entry's price and source, does not call the
\* resolver and leaves the cache as it was
C23_FreshEntryServed ==
    [][\A i \in 1..Len(cache_file.rows) :
          (/\ CacheCallStep
           /\ ~cq'.force_refresh
           /\ cache_file.rows[i].ticker = cq'.symbol
           /\ AgeAt(cache_file.rows[i], now) < 60)
          => /\ cq'.result # <<>>
             /\ cq'.result[1].current_price = cache_file.rows[i].current_price
             /\ cq'.result[1].api_source = cache_file.rows[i].api_source
             /\ ~cq'.resolved
             /\ cache_file'.rows = cache_file.rows]_vars

\* an entry half an hour old was served while the cache held two entries
C23_Witness ==
    /\ ~cq.resolved
    /\ cq.result # <<>>
    /\ cq.result[1].timestamp = <<cq.at - 1>>
    /\ Len(cache_file.rows) = 2

\* ---------------------------------------------------------------------
C24_MustResolve ==
    \/ cq'.force_refresh
    \/ RowsOf(cache_file.rows, cq'.symbol) = <<>>
    \/ \E i \in 1..Len(cache_file.rows) :
          /\ cache_file.rows[i].ticker = cq'.symbol
          /\ AgeAt(cache_file.rows[i], now) >= 60

\* C24: a call with force_refresh, or for a ticker that has no entry or an
\* entry an hour old or older, calls the resolver, and what it returns is
\* what the resolver gave, never the entry
C24_ResolvedWhenStale ==
    [][(CacheCallStep /\ C24_MustResolve) =>
          /\ cq'.resolved
          /\ cq'.result = cq'.fetched]_vars

\* a call without force_refresh met an entry exactly one hour old, called
\* the resolver, which failed, and returned None
C24_Witness ==
    /\ ~cq.force_refresh
    /\ cq.resolved
    /\ cq.result = <<>>
    /\ \E i \in 1..Len(cache_file.rows) :
          /\ cache_file.rows[i].ticker = cq.symbol
          /\ AgeAt(cache_file.rows[i], cq.at) = 60

\* ---------------------------------------------------------------------
\* C25: when the resolver is called and fails, the call returns None and
\* every cache entry is as it was
C25_FailureLeavesCache ==
    [][(CacheCallStep /\ cq'.resolved /\ cq'.fetched = <<>>) =>
          /\ cq'.result = <<>>
          /\ cache_file'.rows = cache_file.rows]_vars

\* the resolver failed for a ticker whose entry had expired, and the entry
\* is still there beside another ticker's
C25_Witness ==
    /\ cq.resolved
    /\ cq.fetched = <<>>
    /\ Len(cache_file.rows) = 2
    /\ \E i \in 1..Len(cache_file.rows) :
          /\ cache_file.rows[i].ticker = cq.symbol
          /\ AgeAt(cache_file.rows[i], cq.at) > 60

\* ---------------------------------------------------------------------
\* C26: after a call has resolved a ticker, the cache holds exactly one
\* entry for it, with the fetched price, its source and the current time,
\* and the entries of the other tickers are as they were
C26_UpsertOne ==
    [][(CacheCallStep /\ cq'.resolved /\ cq'.fetched # <<>>) =>
          /\ RowsOf(cache_file'.rows, cq'.symbol) =
                <<[ticker |-> cq'.symbol,
                   current_price |-> cq'.fetched[1].current_price,
                   timestamp |-> now,
                   api_source |-> cq'.fetched[1].api_source]>>
          /\ OtherRows(cache_file'.rows, cq'.symbol) =
                OtherRows(cache_file.rows, cq'.symbol)
          /\ cq'.result = cq'.fetched]_vars

\* the first of two entries was fetched again after the second was made
C26_Witness ==
    /\ cq.resolved
    /\ cq.fetched # <<>>
    /\ Len(cache_file.rows) = 2
    /\ cache_file.rows[1].ticker = cq.symbol
    /\ cache_file.rows[1].timestamp = cq.at
    /\ cache_file.rows[2].timestamp < cq.at

(***************************************************************************)
(* Stop-loss check and portfolio summary.                                  *)
(***************************************************************************)
\* the records of the log that are Buy records of the ticker with a stop
\* price
C28_BuysWithStop(transactions, ticker) ==
    {i \in 1..Len(transactions) :
        /\ transactions[i].ticker = ticker
        /\ transactions[i].quantity # <<>>
        /\ transactions[i].stop_price # <<>>}

\* the stop price of the last of them, <<>> when there is none
C28_MostRecentStop(transactions, ticker) ==
    LET S == C28_BuysWithStop(transactions, ticker)
    IN  IF S = {} THEN <<>>
        ELSE transactions[CHOOSE i \in S : \A j \in S : j <= i].stop_price

\* a step of the loop of check_stop_losses
StopLoopStep == stop.pc = "loop" /\ Len(stop'.seen) = Len(stop.seen) + 1

\* the holding the step looks at
StopHolding == stop.holdings[stop.i]

\* the quote the step got for it
StopQuoteGot == stop'.seen[Len(stop'.seen)].quote

\* the step sold the whole holding at the stop price: the holding is gone
\* and one Sell record of the quantity at the stop price was appended, with
\* gain_loss = quantity * (stop price - average_cost)
C27_SoldAtStop(holding, stop_price) ==
    /\ \A k \in 1..Len(holdings_file') : holdings_file'[k].ticker # holding.ticker
    /\ Len(transactions_file') = Len(transactions_file) + 1
    /\ SubSeq(transactions_file', 1, Len(transactions_file)) = transactions_file
    /\ LET rec == transactions_file'[Len(transactions_file')]
       IN  /\ rec.ticker = holding.ticker
           /\ rec.quantity = <<>>
           /\ rec.sell_quantity = <<holding.quantity>>
           /\ rec.sell_price = <<stop_price>>
           /\ rec.gain_loss =
                 <<RatMulInt(RatSub(RatOfInt(stop_price), holding.average_cost),
                             holding.quantity)>>

\* the balance grew by exactly quantity * stop price
C27_CashExact(holding, stop_price) ==
    cash_file' = <<GetCashBalance(cash_file) + holding.quantity * stop_price>>

\* the balance is in whole cents and within half a cent of the old balance
\* plus quantity * stop price
C27_CashRounded(holding, stop_price) ==
    /\ cash_file' # <<>>
    /\ cash_file'[1] % 10 = 0
    /\ Abs(cash_file'[1] - (GetCashBalance(cash_file) + holding.quantity * stop_price)) <= 5

\* C27 as stated: a holding with a stop price in force whose quote is at or
\* below it is sold whole at the stop price, the cash balance growing by
\* exactly quantity * stop price; a holding quoted above its stop price is
\* not sold
C27_StopSaleExact ==
    [][StopLoopStep =>
          LET stop_price == C28_MostRecentStop(transactions_file, StopHolding.ticker)
          IN  (stop_price # <<>> /\ StopQuoteGot # <<>>) =>
                 IF StopQuoteGot[1] <= stop_price[1]
                 THEN /\ C27_SoldAtStop(StopHolding, stop_price[1])
                      /\ C27_CashExact(StopHolding, stop_price[1])
                 ELSE LedgerUnchanged]_vars

\* C27: a holding with a stop price in force whose quote is at or below it
\* is sold whole at the stop price, the cash balance growing by
\* quantity * stop price rounded to the cent; a holding quoted above its
\* stop price is not sold
C27_StopSaleRounded ==
    [][StopLoopStep =>
          LET stop_price == C28_MostRecentStop(transactions_file, StopHolding.ticker)
          IN  (stop_price # <<>> /\ StopQuoteGot # <<>>) =>
                 IF StopQuoteGot[1] <= stop_price[1]
                 THEN /\ C27_SoldAtStop(StopHolding, stop_price[1])
                      /\ C27_CashRounded(StopHolding, stop_price[1])
                 ELSE LedgerUnchanged]_vars

\* a holding quoted exactly at its stop price of 42.50 was sold and is gone
C27_Witness ==
    /\ stop.seen # <<>>
    /\ LET last == stop.seen[Len(stop.seen)]
       IN  /\ last.quote = <<42500>>
           /\ last.stop_price = <<42500>>
           /\ \A k \in 1..Len(holdings_file) : holdings_file[k].ticker # last.ticker
           /\ transactions_file[Len(transactions_file)].sell_price = <<42500>>

\* ---------------------------------------------------------------------
\* C28: the stop price check_stop_losses uses for a ticker, and the one the
\* portfolio summary reports for a holding, is the stop price of the last
\* Buy record of the ticker that carries one, and none when no Buy record
\* of the ticker carries one
C28_MostRecentBuyStop ==
    /\ stop.pc # "idle" =>
          \A t \in {"ABC", "DEF"} :
             stop.stop_loss_map[t] = C28_MostRecentStop(transactions_file, t)
    /\ summary.pc = "returned" =>
          \A i \in 1..Len(summary.result[1].holdings) :
             summary.result[1].holdings[i].stop_loss_price =
                C28_MostRecentStop(transactions_file,
                                   summary.result[1].holdings[i].ticker)

\* the part of C28 that holds: the stop price check_stop_losses uses
C28_SchedulerStop ==
    stop.pc # "idle" =>
       \A t \in {"ABC", "DEF"} :
          stop.stop_loss_map[t] = C28_MostRecentStop(transactions_file, t)

\* ---------------------------------------------------------------------
\* C29: a holding with a stop price in force for which no quote came is not
\* sold, the ledger is as it was, and the loop goes on to the next holding
C29_NoQuoteSkipped ==
    [][StopLoopStep =>
          LET stop_price == C28_MostRecentStop(transactions_file, StopHolding.ticker)
          IN  (stop_price # <<>> /\ StopQuoteGot = <<>>) =>
                 /\ LedgerUnchanged
                 /\ stop'.i = stop.i + 1
                 /\ stop.i < Len(stop.holdings) => stop'.pc = "loop"]_vars

\* the first holding got no quote and stayed, the second was looked at and
\* sold
C29_Witness ==
    /\ Len(stop.seen) = 2
    /\ stop.seen[1].stop_price # <<>>
    /\ stop.seen[1].quote = <<>>
    /\ stop.seen[2].outcome = "sold"
    /\ \E k \in 1..Len(holdings_file) : holdings_file[k] = stop.holdings[1]

\* ---------------------------------------------------------------------
\* a step in which get_portfolio_summary returns
SummaryStep == summary.pc = "idle" /\ summary'.pc = "returned"

\* the keys every holding of a summary carries
C30_HoldingKeys ==
    {"ticker", "quantity", "average_cost", "total_market_value",
     "stop_loss_price", "has_stop_loss", "stop_loss_risk_pct"}

\* the holding carries a key besides those
C30_Flagged(holding) == DOMAIN holding # C30_HoldingKeys

RECURSIVE C30_SumFrom(_, _)
C30_SumFrom(holdings, i) ==
    IF i > Len(holdings) THEN RatOfInt(0)
    ELSE RatAdd(holdings[i].total_market_value, C30_SumFrom(holdings, i + 1))

\* the summary values a holding whose lookup failed at what the holdings
\* file held, a holding whose lookup succeeded at quantity * price, and
\* the portfolio at the cash balance plus the sum of these
C30_Values ==
    LET returned == summary'.result[1]
    IN  /\ Len(returned.holdings) = Len(holdings_file)
        /\ \A i \in 1..Len(holdings_file) :
              /\ returned.holdings[i].ticker = holdings_file[i].ticker
              /\ returned.holdings[i].total_market_value =
                    IF summary'.quotes[i] = <<>>
                    THEN holdings_file[i].total_market_value
                    ELSE RatOfInt(holdings_file[i].quantity * summary'.quotes[i][1])
        /\ returned.cash_balance = GetCashBalance(cash_file)
        /\ returned.total_portfolio_value =
              RatAdd(RatOfInt(returned.cash_balance), C30_SumFrom(returned.holdings, 1))

\* C30: a summary is returned when lookups fail; a holding whose lookup
\* failed keeps its last market value and is flagged as stale, the others
\* are valued at quantity * current price, and total_portfolio_value is
\* the cash balance plus the sum of the market values
C30_StaleFlagged ==
    [][SummaryStep =>
          /\ C30_Values
          /\ \A i \in 1..Len(holdings_file) :
                summary'.quotes[i] = <<>> =>
                   C30_Flagged(summary'.result[1].holdings[i])]_vars

\* the part of C30 that holds: the values of the summary
C30_ValuesKept == [][SummaryStep => C30_Values]_vars

\* a summary of two holdings, the lookup of the first failed, that of the
\* second succeeded
C30_Witness ==
    /\ summary.pc = "returned"
    /\ Len(summary.quotes) = 2
    /\ summary.quotes[1] = <<>>
    /\ summary.quotes[2] # <<>>

(***************************************************************************)
(* Scheduled run with sell decisions.                                      *)
(***************************************************************************)
\* a pass of the sell loop, and a pass of the buy loop
SellLoopStep == exec.pc = "selling" /\ Len(exec'.seen) = Len(exec.seen) + 1

BuyLoopStep == exec.pc = "buying" /\ Len(exec'.seen) = Len(exec.seen) + 1

\* the buy the pass of the buy loop is about, and the price it is given with
BuyAtHand == fit.recommendations.buy_recommendations[exec.i]

PriceAtHand ==
    IF BuyAtHand.current_price # 0 THEN BuyAtHand.current_price
    ELSE BuyAtHand.buy_price

\* C31: a buy order whose quantity or price is not positive changes neither
\* the cash balance nor the holdings nor the transaction log when the run
\* processes it
C31_NonPositiveOrdersInert ==
    [][BuyLoopStep =>
          ((BuyAtHand.quantity <= 0 \/ PriceAtHand <= 0) => LedgerUnchanged)]_vars

\* the part of C31 that holds: no Buy record has a price of 0 or less
C31_PricesPositive ==
    \A k \in 1..Len(transactions_file) :
       transactions_file[k].buy_price # <<>> => transactions_file[k].buy_price[1] > 0

\* ---------------------------------------------------------------------
\* the orders of the run: its sell decisions and the buys returned by the
\* share reduction
OrdersOfRun ==
    Len(exec.sell_decisions) + Len(fit.recommendations.buy_recommendations)

\* the orders are dealt with one by one, all sell decisions before the
\* first buy, and a finished run has dealt with every order
C38_Order ==
    /\ \A k \in 1..Len(exec.seen) :
          exec.seen[k].kind = IF k <= Len(exec.sell_decisions) THEN "sell" ELSE "buy"
    /\ exec.pc \in {"tail", "done"} => Len(exec.seen) = OrdersOfRun

\* a buy is refused for lack of funds exactly when its cost is above the
\* cash balance as it stands when the buy is looked at, and after every
\* order, failed ones included, the run goes on to the next one
C38_Steps ==
    [][/\ BuyLoopStep =>
            LET dealt == exec'.seen[Len(exec'.seen)]
            IN  /\ dealt.current_cash # <<>> =>
                      /\ dealt.current_cash = <<GetCashBalance(cash_file)>>
                      /\ dealt.outcome = "insufficient" <=>
                            BuyAtHand.quantity * PriceAtHand > GetCashBalance(cash_file)
                /\ dealt.outcome = "insufficient" => LedgerUnchanged
                /\ exec'.i = exec.i + 1
                /\ exec'.pc = IF exec.i < Len(fit.recommendations.buy_recommendations)
                              THEN "buying" ELSE "tail"
       /\ SellLoopStep =>
            /\ exec'.i = exec.i + 1
            /\ exec'.pc = IF exec.i < Len(exec.sell_decisions)
                          THEN "selling" ELSE "tobuy"]_vars

\* C38: every sell decision is dealt with before the first buy, each buy
\* is checked against the cash balance left by all sells and all earlier
\* buys, and an order that fails does not keep the later ones from being
\* dealt with
C38_SellsThenBuys == []C38_Order /\ C38_Steps

\* a sell was executed, the first buy failed, and the second buy was made
\* against a balance above the one the run started with
C38_Witness ==
    /\ exec.pc = "done"
    /\ Len(exec.seen) = 3
    /\ exec.seen[1].outcome = "sold"
    /\ exec.seen[2].kind = "buy"
    /\ exec.seen[2].outcome = "failed"
    /\ exec.seen[3].outcome = "bought"
    /\ exec.seen[3].current_cash[1] > GetCashBalance(start.cash_file)

\* a sell failed and the sell after it was executed
C38_FailedSellPassed ==
    /\ Len(exec.seen) >= 2
    /\ exec.seen[1].kind = "sell"
    /\ exec.seen[1].outcome = "failed"
    /\ exec.seen[2].outcome = "sold"

(***************************************************************************)
(* Historical valuation.                                                   *)
(***************************************************************************)
\* the quantity of the ticker in the holdings file, 0 when it has no row
C32_Held(ticker) ==
    IF \E k \in 1..Len(holdings_file) : holdings_file[k].ticker = ticker
    THEN holdings_file[CHOOSE k \in 1..Len(holdings_file) :
                          holdings_file[k].ticker = ticker].quantity
    ELSE 0

\* the quantity of the ticker the valuation arrived at, 0 when it has none
C32_Reconstructed(ticker) ==
    IF valuation.holdings[ticker] = <<>> THEN 0
    ELSE valuation.holdings[ticker][1].quantity

\* the valuation took the whole log
C32_WholeLog ==
    valuation.pc = "returned" /\ valuation.target_date = Len(transactions_file)

\* C32: a valuation of the whole log arrives at the ledger's cash balance
\* and, for every ticker, at the quantity the ledger holds
C32_LogReconstructsLedger ==
    C32_WholeLog =>
       /\ valuation.result[1].cash = GetCashBalance(cash_file)
       /\ \A ticker \in {"ABC", "DEF"} : C32_Reconstructed(ticker) = C32_Held(ticker)

\* the part of C32 that holds: a log without Sell records
C32_BuysReconstructLedger ==
    (C32_WholeLog /\ \A k \in 1..Len(transactions_file) :
                        transactions_file[k].sell_quantity = <<>>) =>
       /\ valuation.result[1].cash = GetCashBalance(cash_file)
       /\ \A ticker \in {"ABC", "DEF"} : C32_Reconstructed(ticker) = C32_Held(ticker)

(***************************************************************************)
(* get_cash_balance beside a trade.                                        *)
(***************************************************************************)
\* a step of the get_cash_balance call
C33_ReaderStep == reader' # reader

\* C33: no step of a get_cash_balance call changes the cash file, whatever
\* the trading thread is doing to it
C33_GetCashBalanceReadOnly == [][C33_ReaderStep => cash_file' = cash_file]_vars

\* the cash the trade of the other thread leaves when nothing interferes
C33_CashAfterTrade ==
    IF frame["web"].op = "buy"
    THEN start.cash_file[1] - frame["web"].quantity * frame["web"].price
    ELSE start.cash_file[1] + frame["web"].quantity * frame["web"].price

\* C33, the balance is never reset: once the trade has succeeded and the
\* get_cash_balance call has returned, the file holds the balance after
\* the trade
C33_BalanceNotReset ==
    (pc["web"] = "done" /\ frame["web"].status = "ok" /\ reader.pc = "done")
       => cash_file = <<C33_CashAfterTrade>>

\* the part of C33 that holds: a call that finds the file with its rows
\* returns the balance in it and changes nothing
C33_ReadOnlyOutsideRewrite ==
    [][(C33_ReaderStep /\ reader.pc = "idle" /\ cash_file # <<>>)
          => (cash_file' = cash_file /\ reader'.pc = "done"
              /\ reader'.result = cash_file)]_vars

(***************************************************************************)
(* update_market_values beside a trade.                                    *)
(***************************************************************************)
\* the rows without their market value
C34_Positions(holdings) ==
    [i \in 1..Len(holdings) |->
        [ticker |-> holdings[i].ticker, quantity |-> holdings[i].quantity,
         average_cost |-> holdings[i].average_cost]]

\* a step of the update_market_values call
C34_UpdateStep == umv' # umv

\* C34: no step of update_market_values adds or removes a holding or
\* changes a quantity or an average cost, also when a buy or sell has
\* completed since it read the holdings
C34_OnlyMarketValueChanges ==
    [][C34_UpdateStep => C34_Positions(holdings_file') = C34_Positions(holdings_file)]_vars

\* the part of C34 that holds: when nothing has written the holdings since
\* the call read them, its write leaves every position as it is
C34_OnlyMarketValueChangesAlone ==
    [][(C34_UpdateStep /\ umv.pc = "writing" /\ umv.holdings = holdings_file)
          => C34_Positions(holdings_file') = C34_Positions(holdings_file)]_vars

\* C34, the effect of the trade is not lost: after a sale of a whole holding
\* and the end of the update the ticker is not held
C34_SaleKept ==
    (pc["web"] = "done" /\ frame["web"].status = "ok" /\ frame["web"].op = "sell"
     /\ frame["web"].quantity = 2 /\ umv.pc = "done")
       => \A i \in 1..Len(holdings_file) : holdings_file[i].ticker # frame["web"].ticker

(***************************************************************************)
(* The ledger against its log.                                             *)
(***************************************************************************)
\* 10000 minus the totals of the first n records' buys plus the proceeds of
\* their sells, in mills
RECURSIVE C35_CashFromLog(_)
C35_CashFromLog(n) ==
    IF n = 0 THEN 10000000
    ELSE LET tx == transactions_file[n]
         IN  C35_CashFromLog(n - 1)
             - (IF tx.total # <<>> THEN tx.total[1] ELSE 0)
             + (IF tx.sell_quantity # <<>> THEN tx.sell_quantity[1] * tx.sell_price[1] ELSE 0)

\* shares of the ticker bought minus shares sold in the first n records
RECURSIVE C35_NetQuantity(_, _)
C35_NetQuantity(ticker, n) ==
    IF n = 0 THEN 0
    ELSE LET tx == transactions_file[n]
         IN  C35_NetQuantity(ticker, n - 1)
             + (IF tx.ticker = ticker /\ tx.quantity # <<>> THEN tx.quantity[1] ELSE 0)
             - (IF tx.ticker = ticker /\ tx.sell_quantity # <<>> THEN tx.sell_quantity[1] ELSE 0)

\* every ticker is held in the quantity bought minus sold, and has no row
\* when that is 0
C35_Quantities ==
    \A ticker \in {"ABC", "DEF"} :
        LET net  == C35_NetQuantity(ticker, Len(transactions_file))
            rows == {i \in 1..Len(holdings_file) : holdings_file[i].ticker = ticker}
        IN  IF net = 0 THEN rows = {}
            ELSE \E i \in rows : rows = {i} /\ holdings_file[i].quantity = net

\* cash and quantities are what the log adds up to
C35_Accounts ==
    /\ (IF cash_file = <<>> THEN 10000000 ELSE cash_file[1])
          = C35_CashFromLog(Len(transactions_file))
    /\ C35_Quantities

\* a buy_stock or sell_stock call returns normally
C35_SuccessfulCall ==
    result'.status = "ok" /\ Len(transactions_file') = Len(transactions_file) + 1

\* C35: the initial ledger has the cash and the quantities its log adds up
\* to, and every successful buy or sell leaves it so
C35_LedgerMatchesLog ==
    [][(C35_Accounts /\ C35_SuccessfulCall) => C35_Accounts']_vars

\* cash is what the log adds up to, up to half a cent for each record
C35_CashWithinRounding ==
    LET cash == IF cash_file = <<>> THEN 10000000 ELSE cash_file[1]
        diff == cash - C35_CashFromLog(Len(transactions_file))
    IN  diff <= 5 * Len(transactions_file) /\ -diff <= 5 * Len(transactions_file)

\* the call is for one share or more
C35_PositiveCall ==
    LET tx == transactions_file'[Len(transactions_file')]
    IN  IF tx.quantity # <<>> THEN tx.quantity[1] > 0 ELSE tx.sell_quantity[1] > 0

\* the part of C35 that holds: successful calls for one share or more keep
\* the quantities, and the cash up to the rounding of each stored balance
C35_PositiveCallsMatchLog ==
    [][(C35_CashWithinRounding /\ C35_Quantities /\ C35_SuccessfulCall /\ C35_PositiveCall)
          => (C35_CashWithinRounding' /\ C35_Quantities')]_vars

\* the part of C35 that holds for the cash: with prices in whole cents every
\* successful call keeps the cash equal to what the log adds up to
C35_WholeCentCashMatchesLog ==
    [][(C35_Accounts /\ C35_SuccessfulCall
        /\ LET tx == transactions_file'[Len(transactions_file')]
           IN  (IF tx.buy_price # <<>> THEN tx.buy_price[1] ELSE tx.sell_price[1]) = 50000)
          => (IF cash_file' = <<>> THEN 10000000 ELSE cash_file'[1])
                = C35_CashFromLog(Len(transactions_file))'
                ]_vars

(***************************************************************************)
(* One holding per ticker.                                                 *)
(***************************************************************************)
\* the ticker without regard to case
C36_Folded(ticker) == IF ticker = "abc" THEN "ABC" ELSE ticker

\* C36: no two rows of the holdings carry the same ticker, the case of the
\* letters disregarded; a lower-case ticker never gets a row of its own
C36_OneHoldingPerTicker ==
    /\ \A i, j \in 1..Len(holdings_file) :
          C36_Folded(holdings_file[i].ticker) = C36_Folded(holdings_file[j].ticker) => i = j
    /\ \A i \in 1..Len(holdings_file) : holdings_file[i].ticker \in {"ABC", "DEF"}

\* ABC was bought twice and DEF once: ABC has its one row, with the shares
\* of both buys
C36_Witness ==
    /\ Len(transactions_file) = 3
    /\ \A k \in 1..2 : transactions_file[k].ticker = "ABC" /\ transactions_file[k].quantity # <<>>
    /\ transactions_file[3].ticker = "DEF"
    /\ Len(holdings_file) = 2
    /\ holdings_file[1].ticker = "ABC" /\ holdings_file[1].quantity = 3

(***************************************************************************)
(* The two derivations of the stop price.                                  *)
(***************************************************************************)
\* check_stop_losses has run to its end and its closing summary is at hand
C37_BothDerived == stop.pc = "done" /\ summary.pc = "returned"

\* for every holding the summary reports the stop price check_stop_losses
\* used for its ticker, and a stop exactly when check_stop_losses had one
C37_Agree ==
    \A i \in 1..Len(summary.result[1].holdings) :
        LET holding == summary.result[1].holdings[i]
        IN  /\ holding.stop_loss_price = stop.stop_loss_map[holding.ticker]
            /\ holding.has_stop_loss <=> (stop.stop_loss_map[holding.ticker] # <<>>)

\* C37: after any buys and sells, the stop price check_stop_losses uses for
\* a held ticker is the stop_loss_price get_portfolio_summary reports for it
C37_DerivationsAgree == C37_BothDerived => C37_Agree

\* the part of C37 that holds: the derivations agree when every stop price
\* in the log is above 0
C37_PositiveStopsAgree ==
    (C37_BothDerived /\ \A k \in 1..Len(transactions_file) :
                           transactions_file[k].stop_price # <<>>
                              => transactions_file[k].stop_price[1] > 0)
       => C37_Agree

====
